---------------------------- MODULE Spec2Model ----------------------------
(***************************************************************************)
(* A model of bnfparsing: ParserBase (src/bnfparsing/parser.py), the rule  *)
(* tokenizer (src/bnfparsing/utils.py), the whitespace handlers            *)
(* (src/bnfparsing/whitespace.py), Token (src/bnfparsing/token.py) and the *)
(* character matchers of src/bnfparsing/common.py.                         *)
(*                                                                         *)
(* Python strings are sequences of one-character strings.  A rule body is  *)
(* compiled from its characters exactly as new_rule does; a compiled rule  *)
(* is the data its closure captures, and calling it is RunFunction.        *)
(***************************************************************************)
EXTENDS Integers, Sequences, FiniteSets, TLC

(***************************************************************************)
(* Characters                                                              *)
(***************************************************************************)
\* utils.NULL = chr(0): a character that never occurs in regular strings
NULL == "NUL"
QUOTE == "\""
BACKSLASH == "\\"
PIPE == "|"
SPACE == " "
\* the characters str.isspace / str.lstrip() treat as whitespace
WhitespaceChars == {" ", "\t", "\n"}
\* the characters str.islower, str.isupper and str.isdigit accept, among
\* those the model uses
LowerChars == {"a", "b", "r", "s", "l", "p", "h"}
UpperChars == {"B"}
DigitChars == {"1"}
\* the characters str.isalpha accepts, among those the model uses
AlphaChars == LowerChars \cup UpperChars

(***************************************************************************)
(* Bounds of the model                                                     *)
(***************************************************************************)
\* longest input string handed to parse
MaxLen == 3
\* nesting of rule calls after which Python raises RecursionError
RecursionLimit == 12

(***************************************************************************)
(* Python str operations                                                   *)
(***************************************************************************)
\* the element of a one-element set: Only({e(x) : x \in {v}}) is e(v) with v
\* computed once
Only(S) == CHOOSE x \in S : TRUE

Drop(s, n) == IF n >= Len(s) THEN <<>> ELSE SubSeq(s, n + 1, Len(s))

Take(s, n) == IF n >= Len(s) THEN s ELSE SubSeq(s, 1, n)

\* str.startswith
StartsWith(s, p) == Len(p) <= Len(s) /\ SubSeq(s, 1, Len(p)) = p

\* str.replace(pat, rep), pat non-empty: leftmost non-overlapping occurrences
RECURSIVE Replace(_, _, _)
Replace(s, pat, rep) ==
    IF s = <<>> THEN <<>>
    ELSE IF StartsWith(s, pat) THEN rep \o Replace(Drop(s, Len(pat)), pat, rep)
    ELSE <<Head(s)>> \o Replace(Tail(s), pat, rep)

\* str.split(sep), sep non-empty: always at least one piece
RECURSIVE SplitFrom(_, _, _)
SplitFrom(s, sep, cur) ==
    IF s = <<>> THEN <<cur>>
    ELSE IF StartsWith(s, sep) THEN <<cur>> \o SplitFrom(Drop(s, Len(sep)), sep, <<>>)
    ELSE SplitFrom(Tail(s), sep, Append(cur, Head(s)))

Split(s, sep) == SplitFrom(s, sep, <<>>)

\* str.lstrip(chars)
RECURSIVE LStripChars(_, _)
LStripChars(s, chars) ==
    IF s # <<>> /\ Head(s) \in chars THEN LStripChars(Tail(s), chars) ELSE s

\* str.rstrip(chars)
RECURSIVE RStripChars(_, _)
RStripChars(s, chars) ==
    IF s # <<>> /\ s[Len(s)] \in chars
    THEN RStripChars(SubSeq(s, 1, Len(s) - 1), chars) ELSE s

LStrip(s) == LStripChars(s, WhitespaceChars)

Strip(s) == RStripChars(LStrip(s), WhitespaceChars)

\* str.isspace: non-empty and whitespace only
IsSpace(s) == s # <<>> /\ \A i \in 1..Len(s) : s[i] \in WhitespaceChars

\* str.split() without argument: the maximal whitespace-free runs
RECURSIVE SplitWsFrom(_, _)
SplitWsFrom(s, cur) ==
    IF s = <<>> THEN (IF cur = <<>> THEN <<>> ELSE <<cur>>)
    ELSE IF Head(s) \in WhitespaceChars
         THEN (IF cur = <<>> THEN <<>> ELSE <<cur>>) \o SplitWsFrom(Tail(s), <<>>)
    ELSE SplitWsFrom(Tail(s), Append(cur, Head(s)))

SplitWs(s) == SplitWsFrom(s, <<>>)

(***************************************************************************)
(* utils.py                                                                *)
(***************************************************************************)
\* is_literal: only double quotes make a literal
is_literal(c) == c[1] = QUOTE /\ c[Len(c)] = QUOTE /\ Len(c) > 1

\* the loop of split_tokens over the pieces between double quotes
RECURSIVE SplitTokensLoop(_, _, _)
SplitTokensLoop(groups, i, in_literal) ==
    IF i > Len(groups) THEN <<>>
    ELSE LET g == Replace(groups[i], <<NULL>>, <<QUOTE>>)
             here == IF ~in_literal /\ g # <<>> /\ ~IsSpace(g) THEN SplitWs(Strip(g))
                     ELSE IF in_literal THEN << <<QUOTE>> \o g \o <<QUOTE>> >>
                     ELSE <<>>
         IN  here \o SplitTokensLoop(groups, i + 1, ~in_literal)

\* split_tokens, were a double quote behind a backslash a quote like any other
split_tokens_NoEscape(string) ==
    LET groups == Split(string, <<QUOTE>>)
    IN  IF Len(groups) % 2 = 0
        THEN [err |-> "ValueError", tokens |-> <<>>]
        ELSE [err |-> "ok", tokens |-> SplitTokensLoop(groups, 1, FALSE)]

\* split_tokens: [err |-> exception or "ok", tokens |-> the atoms]
split_tokens(string) ==
    LET replaced == Replace(string, <<BACKSLASH, QUOTE>>, <<NULL>>)
        groups == Split(replaced, <<QUOTE>>)
    IN  IF Len(groups) % 2 = 0
        THEN [err |-> "ValueError", tokens |-> <<>>]
        ELSE [err |-> "ok", tokens |-> SplitTokensLoop(groups, 1, FALSE)]


(***************************************************************************)
(* token.py                                                                *)
(***************************************************************************)
\* Python's None where a string is expected (token_type, main, name)
NoneName == <<"None">>
\* Python's None where a Token is expected
NoneTok == [isNone |-> TRUE]

\* Token.__init__; children are held by value, so a token's parent is the
\* token whose children sequence holds it
Token(token_type, text) ==
    [token_type |-> token_type, text |-> text, children |-> <<>>, tags |-> <<>>]

\* Token.add, were the text of the token not looked at
TokenAdd_NoCheck(self, child) ==
    [err |-> "ok", tok |-> [self EXCEPT !.children = Append(@, child)]]

\* Token.add: [err, tok |-> self afterwards]
TokenAdd(self, child) ==
    IF self.text # <<>> THEN [err |-> "RuntimeError", tok |-> self]
    ELSE [err |-> "ok", tok |-> [self EXCEPT !.children = Append(@, child)]]

\* Token.tag is called by choice_func but token.py does not define it;
\* it records the name of the choice rule on the token and changes nothing else
TokenTag(self, name) == [self EXCEPT !.tags = Append(@, name)]

\* what Token.value raises on a token with text and children
RuntimeErrorValue == <<"RuntimeError">>

RECURSIVE value(_)
\* ''.join(c.value() for c in children), from child i on
RECURSIVE JoinValues(_, _)
\* JoinValues, were the values joined from the last child to the first
JoinValues_Reversed(children, i) ==
    IF i > Len(children) THEN <<>>
    ELSE Only({IF v = RuntimeErrorValue \/ rest = RuntimeErrorValue
               THEN RuntimeErrorValue ELSE rest \o v :
               v \in {value(children[i])}, rest \in {JoinValues(children, i + 1)}})

JoinValues(children, i) ==
    IF i > Len(children) THEN <<>>
    ELSE Only({IF v = RuntimeErrorValue \/ rest = RuntimeErrorValue
               THEN RuntimeErrorValue ELSE v \o rest :
               v \in {value(children[i])}, rest \in {JoinValues(children, i + 1)}})

\* Token.value()
value(self) ==
    IF self.children # <<>> /\ self.text # <<>> THEN RuntimeErrorValue
    ELSE IF self.children # <<>> THEN JoinValues(self.children, 1)
    ELSE self.text

\* Token.__bool__, and the truth value of None
Truthy(tok) ==
    /\ tok # NoneTok
    /\ \/ tok.token_type \notin {NoneName, <<>>}
       \/ tok.text # <<>>

(***************************************************************************)
(* whitespace.py: a handler is its kind and the values its closure holds   *)
(***************************************************************************)
NoHandler == [kind |-> "none"]
IgnoreHandler == [kind |-> "ignore"]
IgnoreSpecificHandler(chars) == [kind |-> "ignore_specific", chars |-> chars]
RequireHandler(w, ign) == [kind |-> "require", whitespace |-> w, ignore |-> ign]

\* truth value of self.ws_handler
HandlerSet(h) == h.kind # "none"

\* ignore(string)
ignore(string) ==
    LET s == IF string # <<>> /\ string[1] = NULL THEN Tail(string) ELSE string
    IN  [err |-> "ok", str |-> LStrip(s)]

\* ignore_specific, were every whitespace character stripped
ignore_specific_StripsAll(chars, string) ==
    LET s == IF string # <<>> /\ string[1] = NULL THEN Tail(string) ELSE string
    IN  [err |-> "ok", str |-> LStrip(s)]

\* ignore_specific(whitespace).handler(string)
ignore_specific(chars, string) ==
    LET s == IF string # <<>> /\ string[1] = NULL THEN Tail(string) ELSE string
    IN  [err |-> "ok", str |-> LStripChars(s, chars)]

\* require, were a string that does not start with the whitespace let through
require_NeverRaises(w, ign, string) ==
    IF string # <<>> /\ string[1] = NULL THEN [err |-> "ok", str |-> Tail(string)]
    ELSE IF Take(string, Len(w)) # w THEN [err |-> "ok", str |-> string]
    ELSE [err |-> "ok",
          str |-> IF ign THEN LStrip(Drop(string, Len(w))) ELSE Drop(string, Len(w))]

\* require(whitespace, ignore).handler(string)
require(w, ign, string) ==
    IF string # <<>> /\ string[1] = NULL THEN [err |-> "ok", str |-> Tail(string)]
    ELSE IF Take(string, Len(w)) # w THEN [err |-> "DelimiterError", str |-> string]
    ELSE [err |-> "ok",
          str |-> IF ign THEN LStrip(Drop(string, Len(w))) ELSE Drop(string, Len(w))]

\* self.ws_handler(string)
ApplyHandler(h, string) ==
    CASE h.kind = "ignore" -> ignore(string)
      [] h.kind = "ignore_specific" -> ignore_specific(h.chars, string)
      [] h.kind = "require" -> require(h.whitespace, h.ignore, string)

(***************************************************************************)
(* common.py                                                               *)
(***************************************************************************)
AlphaName == <<"a", "l", "p", "h", "a">>

\* common.alpha: [tok, str]
alpha(string) ==
    IF string # <<>> /\ string[1] \in AlphaChars
    THEN [tok |-> Token(AlphaName, <<string[1]>>), str |-> Tail(string)]
    ELSE [tok |-> NoneTok, str |-> string]

LowerName == <<"l", "o", "w", "e", "r">>
UpperName == <<"u", "p", "p", "e", "r">>
DigitName == <<"d", "i", "g", "i", "t">>
WhitespaceName == <<"w", "h", "i", "t", "e", "s", "p", "a", "c", "e">>
\* name + '_run'
RunName(name) == name \o <<"_", "r", "u", "n">>

\* utils.head: [char, other], char = NoneName for the empty string
head(string) ==
    IF string # <<>> THEN [char |-> <<string[1]>>, other |-> Tail(string)]
    ELSE [char |-> NoneName, other |-> string]

\* common.lower: [err, tok, str]
lower(string) ==
    LET h == head(string)
    IN  IF h.char # NoneName /\ h.char[1] \in LowerChars
        THEN [err |-> "ok", tok |-> Token(LowerName, h.char), str |-> h.other]
        ELSE [err |-> "ok", tok |-> NoneTok, str |-> string]

\* common.upper
upper(string) ==
    LET h == head(string)
    IN  IF h.char # NoneName /\ h.char[1] \in UpperChars
        THEN [err |-> "ok", tok |-> Token(UpperName, h.char), str |-> h.other]
        ELSE [err |-> "ok", tok |-> NoneTok, str |-> string]

\* common.digit
digit(string) ==
    LET h == head(string)
    IN  IF h.char # NoneName /\ h.char[1] \in DigitChars
        THEN [err |-> "ok", tok |-> Token(DigitName, h.char), str |-> h.other]
        ELSE [err |-> "ok", tok |-> NoneTok, str |-> string]

\* the loop of the run matchers, for n, char in enumerate(string), from
\* position i (counted from 0): the value n holds when the loop is left;
\* n is bound by the first pass of the loop
RECURSIVE RunLoop(_, _, _)
RunLoop(string, i, chars) ==
    IF i >= Len(string) THEN i
    ELSE IF string[i + 1] \notin chars THEN i
    ELSE RunLoop(string, i + 1, chars)

\* a run matcher after its loop: if n > 0 with n unbound raises
RunMatcher(name, chars, string) ==
    IF string = <<>> THEN [err |-> "UnboundLocalError", tok |-> NoneTok, str |-> string]
    ELSE LET n == RunLoop(string, 0, chars)
         IN  IF n > 0
             THEN [err |-> "ok", tok |-> Token(name, Take(string, n)),
                   str |-> Drop(string, n)]
             ELSE [err |-> "ok", tok |-> NoneTok, str |-> string]

\* common.lower_run
lower_run(string) == RunMatcher(RunName(LowerName), LowerChars, string)

\* common.upper_run
upper_run(string) == RunMatcher(RunName(UpperName), UpperChars, string)

\* common.alpha_run
alpha_run(string) == RunMatcher(RunName(AlphaName), AlphaChars, string)

\* common.digit_run
digit_run(string) == RunMatcher(RunName(DigitName), DigitChars, string)

\* common.whitespace: the text is string[:len(nonspace)+1]
whitespace(string) ==
    LET nonspace == LStrip(string)
    IN  IF Len(nonspace) # Len(string)
        THEN [err |-> "ok",
              tok |-> Token(WhitespaceName, Take(string, Len(nonspace) + 1)),
              str |-> nonspace]
        ELSE [err |-> "ok", tok |-> NoneTok, str |-> string]

\* the user functions handed to from_function, by __name__
UserFunction(fn, string) ==
    CASE fn = AlphaName -> alpha(string)

(***************************************************************************)
(* parser.py: the matchers.  A matcher returns                             *)
(*   [tok, str, err, log]: the token or NoneTok, the string handed back,   *)
(*   the exception raised ("ok" if none), and the matcher calls that       *)
(*   returned during it, in order of return (what debug=True prints), and  *)
(*   the lookup in self.rules that raised KeyError, if one did.            *)
(* ctx holds self.rules, self.no_handling (its keys) and self.ws_handler.  *)
(***************************************************************************)
Result(tok, str, log) == [tok |-> tok, str |-> str, err |-> "ok", log |-> log]

Raise(err, str, log) == [tok |-> NoneTok, str |-> str, err |-> err, log |-> log]

\* one returned matcher call
Event(kind, name, in, tok, out, ins) ==
    [kind |-> kind, name |-> name, in |-> in, tok |-> tok, out |-> out, ins |-> ins]

\* item[1:-1]
Unquote(item) == SubSeq(item, 2, Len(item) - 1)

\* literal, were the matched phrase left on the string
literal_KeepsInput(ctx, phrase, string) ==
    LET original == string
        h == IF HandlerSet(ctx.ws_handler) THEN ApplyHandler(ctx.ws_handler, string)
             ELSE [err |-> "ok", str |-> string]
    IN  IF h.err # "ok" THEN Raise(h.err, string, <<>>)
        ELSE IF StartsWith(h.str, phrase)
        THEN LET tok == Token(<<"l", "i", "t", "e", "r", "a", "l">>, phrase)
                 rest == h.str
             IN  Result(tok, rest, <<Event("literal", phrase, string, tok, rest, <<>>)>>)
        ELSE Result(NoneTok, original,
                    <<Event("literal", phrase, string, NoneTok, original, <<>>)>>)

\* literal, were a failed match to hand back the string as the whitespace
\* handler left it
literal_ReturnsStripped(ctx, phrase, string) ==
    LET h == IF HandlerSet(ctx.ws_handler) THEN ApplyHandler(ctx.ws_handler, string)
             ELSE [err |-> "ok", str |-> string]
    IN  IF h.err # "ok" THEN Raise(h.err, string, <<>>)
        ELSE IF StartsWith(h.str, phrase)
        THEN LET tok == Token(<<"l", "i", "t", "e", "r", "a", "l">>, phrase)
                 rest == Drop(h.str, Len(phrase))
             IN  Result(tok, rest, <<Event("literal", phrase, string, tok, rest, <<>>)>>)
        ELSE Result(NoneTok, h.str,
                    <<Event("literal", phrase, string, NoneTok, h.str, <<>>)>>)

\* ParserBase.literal
literal(ctx, phrase, string) ==
    LET original == string
        h == IF HandlerSet(ctx.ws_handler) THEN ApplyHandler(ctx.ws_handler, string)
             ELSE [err |-> "ok", str |-> string]
    IN  IF h.err # "ok" THEN Raise(h.err, string, <<>>)
        ELSE IF StartsWith(h.str, phrase)
        THEN LET tok == Token(<<"l", "i", "t", "e", "r", "a", "l">>, phrase)
                 rest == Drop(h.str, Len(phrase))
             IN  Result(tok, rest, <<Event("literal", phrase, string, tok, rest, <<>>)>>)
        ELSE Result(NoneTok, original,
                    <<Event("literal", phrase, string, NoneTok, original, <<>>)>>)

\* enable_debug(function).debug_enabled_function
debug_enabled_function(fn, string) ==
    LET r == UserFunction(fn, string)
    IN  Result(r.tok, r.str, <<Event("function", fn, string, r.tok, r.str, <<>>)>>)

RECURSIVE RunFunction(_, _, _, _)
RECURSIVE MatchItem(_, _, _, _)
RECURSIVE SequenceLoop(_, _, _, _, _, _, _, _)
RECURSIVE ChoiceLoop(_, _, _, _, _, _, _, _)

\* MatchItem, were a name that is not registered a plain failure to match
MatchItem_MissingIsNoMatch(ctx, item, string, depth) ==
    IF is_literal(item) THEN literal(ctx, Unquote(item), string)
    ELSE IF item \notin DOMAIN ctx.rules
    THEN Result(NoneTok, string,
                <<Event("lookup", item, string, NoneTok, string, <<>>)>>)
    ELSE LET h == IF item \in ctx.no_handling /\ HandlerSet(ctx.ws_handler)
                  THEN ApplyHandler(ctx.ws_handler, string)
                  ELSE [err |-> "ok", str |-> string]
         IN  IF h.err # "ok" THEN Raise(h.err, string, <<>>)
             ELSE RunFunction(ctx, ctx.rules[item], h.str, depth + 1)

\* MatchItem, were the call of a rule to take two levels of the stack
MatchItem_TwoLevels(ctx, item, string, depth) ==
    IF is_literal(item) THEN literal(ctx, Unquote(item), string)
    ELSE IF item \notin DOMAIN ctx.rules
    THEN Raise("KeyError", string,
               <<Event("lookup", item, string, NoneTok, string, <<>>)>>)
    ELSE LET h == IF item \in ctx.no_handling /\ HandlerSet(ctx.ws_handler)
                  THEN ApplyHandler(ctx.ws_handler, string)
                  ELSE [err |-> "ok", str |-> string]
         IN  IF h.err # "ok" THEN Raise(h.err, string, <<>>)
             ELSE RunFunction(ctx, ctx.rules[item], h.str, depth + 2)

\* one atom of a group: a literal, or self.rules[item] behind the whitespace
\* handler when item is in self.no_handling
MatchItem(ctx, item, string, depth) ==
    IF is_literal(item) THEN literal(ctx, Unquote(item), string)
    ELSE IF item \notin DOMAIN ctx.rules
    THEN Raise("KeyError", string,
               <<Event("lookup", item, string, NoneTok, string, <<>>)>>)
    ELSE LET h == IF item \in ctx.no_handling /\ HandlerSet(ctx.ws_handler)
                  THEN ApplyHandler(ctx.ws_handler, string)
                  ELSE [err |-> "ok", str |-> string]
         IN  IF h.err # "ok" THEN Raise(h.err, string, <<>>)
             ELSE RunFunction(ctx, ctx.rules[item], h.str, depth + 1)

\* SequenceStep, were a failing sequence to hand back the string as its
\* earlier items left it
SequenceStep_KeepsConsumed(ctx, f, i, master, original, depth, log, r) ==
    IF r.err # "ok" THEN Raise(r.err, r.str, log \o r.log)
    ELSE IF Truthy(r.tok)
    THEN LET a == TokenAdd(master, r.tok)
         IN  IF a.err # "ok" THEN Raise(a.err, r.str, log \o r.log)
             ELSE SequenceLoop(ctx, f, i + 1, a.tok, r.str, original, depth,
                               log \o r.log)
    ELSE Result(NoneTok, r.str,
                Append(log \o r.log,
                       Event("sequence", f.name, original, NoneTok, r.str, <<>>)))

\* group_func, len(group) > 1: the body of the for loop once item i gave r
SequenceStep(ctx, f, i, master, original, depth, log, r) ==
    IF r.err # "ok" THEN Raise(r.err, r.str, log \o r.log)
    ELSE IF Truthy(r.tok)
    THEN LET a == TokenAdd(master, r.tok)
         IN  IF a.err # "ok" THEN Raise(a.err, r.str, log \o r.log)
             ELSE SequenceLoop(ctx, f, i + 1, a.tok, r.str, original, depth,
                               log \o r.log)
    ELSE Result(NoneTok, original,
                Append(log \o r.log,
                       Event("sequence", f.name, original, NoneTok, original, <<>>)))

\* make_group, len(group) > 1: the for loop of group_func from item i on
SequenceLoop(ctx, f, i, master, string, original, depth, log) ==
    IF i > Len(f.group)
    THEN Result(master, string,
                Append(log, Event("sequence", f.name, original, master, string, <<>>)))
    ELSE Only({SequenceStep(ctx, f, i, master, original, depth, log, r) :
               r \in {MatchItem(ctx, f.group[i], string, depth)}})

\* SingleStep, were the token handed on under the type it came with
SingleStep_KeepsType(f, string, r) ==
    IF r.err # "ok" THEN r
    ELSE Result(r.tok, r.str,
                Append(r.log, Event("single", f.name, string, r.tok, r.str, <<>>)))

\* SingleStep, were the token wrapped in a new token instead of renamed
SingleStep_Wraps(f, string, r) ==
    LET tok == IF Truthy(r.tok) THEN TokenAdd(Token(f.name, <<>>), r.tok).tok
               ELSE r.tok
    IN  IF r.err # "ok" THEN r
        ELSE Result(tok, r.str,
                    Append(r.log, Event("single", f.name, string, tok, r.str, <<>>)))

\* group_func, len(group) = 1, once the item gave r: the token is renamed
SingleStep(f, string, r) ==
    LET tok == IF Truthy(r.tok) THEN [r.tok EXCEPT !.token_type = f.name] ELSE r.tok
    IN  IF r.err # "ok" THEN r
        ELSE Result(tok, r.str,
                    Append(r.log, Event("single", f.name, string, tok, r.str, <<>>)))

\* make_group, len(group) = 1: group_func
SingleFunc(ctx, f, string, depth) ==
    Only({SingleStep(f, string, r) : r \in {MatchItem(ctx, f.group[1], string, depth)}})

\* the function make_group returns
group_func(ctx, f, string, depth) ==
    IF Len(f.group) > 1
    THEN SequenceLoop(ctx, f, 1, Token(f.name, <<>>), string, string, depth, <<>>)
    ELSE SingleFunc(ctx, f, string, depth)

\* choice_func: the body of the for loop once alternative i gave r; ins are
\* the strings the alternatives tried so far were given
ChoiceStep(ctx, f, i, first, tried, depth, log, r) ==
    IF r.err # "ok" THEN Raise(r.err, r.str, log \o r.log)
    ELSE IF Truthy(r.tok)
    THEN LET tok == TokenTag(r.tok, f.name)
         IN  Result(tok, r.str,
                    Append(log \o r.log,
                           Event("choice", f.name, first, tok, r.str, tried)))
    ELSE ChoiceLoop(ctx, f, i + 1, r.str, first, tried, depth, log \o r.log)

\* make_choice: the for loop of choice_func from alternative i on
ChoiceLoop(ctx, f, i, string, first, ins, depth, log) ==
    IF i > Len(f.choices)
    THEN Result(NoneTok, string,
                Append(log, Event("choice", f.name, first, NoneTok, string, ins)))
    ELSE Only({ChoiceStep(ctx, f, i, first, Append(ins, string), depth, log, r) :
               r \in {group_func(ctx, f.choices[i], string, depth)}})

\* choice_func, were the alternatives tried from the last one to the first
choice_func_LastFirst(ctx, f, string, depth) ==
    ChoiceLoop(ctx,
               [f EXCEPT !.choices = [i \in 1..Len(@) |-> @[Len(@) + 1 - i]]],
               1, string, string, <<>>, depth, <<>>)

\* the function make_choice returns
choice_func(ctx, f, string, depth) ==
    ChoiceLoop(ctx, f, 1, string, string, <<>>, depth, <<>>)

\* calling an entry of self.rules; Python gives up with RecursionError when
\* the calls nest too deep
RunFunction(ctx, f, string, depth) ==
    IF depth > RecursionLimit THEN Raise("RecursionError", string, <<>>)
    ELSE CASE f.kind = "function" -> debug_enabled_function(f.fn, string)
           [] f.kind = "group" -> group_func(ctx, f, string, depth)
           [] f.kind = "choice" -> choice_func(ctx, f, string, depth)

(***************************************************************************)
(* parser.py: compiling a rule                                             *)
(***************************************************************************)
\* ParserBase.make_group: the data group_func closes over; group[0] raises
\* IndexError on an empty group
make_group(group, name) ==
    IF Len(group) = 0 THEN [err |-> "IndexError", func |-> NoneTok]
    ELSE [err |-> "ok", func |-> [kind |-> "group", name |-> name, group |-> group]]

\* ParserBase.make_choice: the data choice_func closes over
make_choice(choices, name) ==
    [kind |-> "choice", name |-> name, choices |-> choices]

\* RuleGroups, were an escaped pipe split at like any other
RuleGroups_NoEscape(rule) ==
    LET pieces == Split(rule, <<PIPE>>)
    IN  [i \in 1..Len(pieces) |-> split_tokens(pieces[i])]

\* new_rule: groups.append(split_tokens(group.replace(NULL, '|')))
RuleGroups(rule) ==
    LET escaped == Replace(rule, <<BACKSLASH, PIPE>>, <<NULL>>)
        pieces == Split(escaped, <<PIPE>>)
    IN  [i \in 1..Len(pieces) |-> split_tokens(Replace(pieces[i], <<NULL>>, <<PIPE>>))]

\* new_rule, from the split of the rule to the function it registers:
\* the exception raised on the way, or the compiled function
CompileRule(name, rule) ==
    LET groups == RuleGroups(rule)
        made == [i \in 1..Len(groups) |-> make_group(groups[i].tokens, name)]
    IN  IF \E i \in 1..Len(groups) : groups[i].err # "ok"
        THEN [err |-> "ValueError", func |-> NoneTok]
        ELSE IF \E i \in 1..Len(groups) : made[i].err # "ok"
        THEN [err |-> "IndexError", func |-> NoneTok]
        ELSE IF Len(groups) > 1
        THEN [err |-> "ok",
              func |-> make_choice([i \in 1..Len(groups) |-> made[i].func], name)]
        ELSE [err |-> "ok", func |-> made[1].func]

(***************************************************************************)
(* parser.py: ParserBase.  self is [rules, no_handling, ws_handler, main]; *)
(* a method returns [err, self], self unchanged up to the raise.           *)
(***************************************************************************)
\* truth value of a name: neither None nor ''
NameSet(n) == n # NoneName /\ n # <<>>

\* self.rules[name] = func
Register(rules, name, func) ==
    [n \in DOMAIN rules \cup {name} |-> IF n = name THEN func ELSE rules[n]]

\* ParserBase.__init__ (ParserBase itself has no method marked as a rule)
NewParser(ws_handler) ==
    [rules |-> [n \in {} |-> NoneTok], no_handling |-> {},
     ws_handler |-> ws_handler, main |-> NoneName]

\* the names the function of a rule looks up in self.rules when it runs: the
\* items of its groups that are not literals
Refs(f) ==
    LET atoms(g) == {g.group[a] : a \in 1..Len(g.group)}
        all == IF f.kind = "group" THEN atoms(f)
               ELSE IF f.kind = "choice"
               THEN UNION {atoms(f.choices[i]) : i \in 1..Len(f.choices)}
               ELSE {}
    IN  {a \in all : ~is_literal(a)}

\* new_rule, were the names a rule refers to looked up when it is compiled
new_rule_Eager(self, name, rule, main, force) ==
    IF name \in DOMAIN self.rules /\ ~force THEN [err |-> "ValueError", self |-> self]
    ELSE LET c == CompileRule(name, rule)
         IN  IF c.err # "ok" THEN [err |-> c.err, self |-> self]
             ELSE IF \E n \in Refs(c.func) : n \notin DOMAIN self.rules
             THEN [err |-> "KeyError", self |-> self]
             ELSE [err |-> "ok",
                   self |-> [self EXCEPT
                       !.main = IF main \/ ~NameSet(self.main) THEN name ELSE @,
                       !.rules = Register(@, name, c.func)]]

\* ParserBase.new_rule
new_rule(self, name, rule, main, force) ==
    IF name \in DOMAIN self.rules /\ ~force THEN [err |-> "ValueError", self |-> self]
    ELSE LET c == CompileRule(name, rule)
         IN  IF c.err # "ok" THEN [err |-> c.err, self |-> self]
             ELSE [err |-> "ok",
                   self |-> [self EXCEPT
                       !.main = IF main \/ ~NameSet(self.main) THEN name ELSE @,
                       !.rules = Register(@, name, c.func)]]

\* from_function, were every registered function made the main rule
from_function_LastIsMain(self, fn, name, ws_handling, main, force) ==
    IF name \in DOMAIN self.rules /\ ~force THEN [err |-> "ValueError", self |-> self]
    ELSE LET n == IF ~NameSet(name) THEN fn ELSE name
             function == [kind |-> "function", fn |-> fn]
         IN  [err |-> "ok",
              self |-> [self EXCEPT
                  !.main = n,
                  !.no_handling = IF ws_handling THEN @ \cup {n} ELSE @,
                  !.rules = Register(@, n, function)]]

\* ParserBase.from_function; name = NoneName when the caller gives none
from_function(self, fn, name, ws_handling, main, force) ==
    IF name \in DOMAIN self.rules /\ ~force THEN [err |-> "ValueError", self |-> self]
    ELSE LET n == IF ~NameSet(name) THEN fn ELSE name
             function == [kind |-> "function", fn |-> fn]
         IN  [err |-> "ok",
              self |-> [self EXCEPT
                  !.main = IF main \/ ~NameSet(self.main) THEN n ELSE @,
                  !.no_handling = IF ws_handling THEN @ \cup {n} ELSE @,
                  !.rules = Register(@, n, function)]]

\* grammar SEP
SEP == <<":", "=">>
\* grammar DELIMITER
DELIMITER == <<"\n">>

\* ParserBase.grammar: the for loop over the lines from line i on
RECURSIVE GrammarLoop(_, _, _, _)
GrammarLoop(self, lines, i, main) ==
    IF i > Len(lines) THEN [err |-> "ok", self |-> self]
    ELSE LET parts == Split(lines[i], SEP)
         IN  IF Len(parts) # 2 THEN [err |-> "ValueError", self |-> self]
             ELSE LET name == Strip(parts[1])
                      s1 == IF NameSet(main) /\ name = main
                            THEN [self EXCEPT !.main = main] ELSE self
                  IN  Only({IF r.err # "ok" THEN r
                            ELSE GrammarLoop(r.self, lines, i + 1, main) :
                            r \in {new_rule(s1, name, Strip(parts[2]), FALSE, FALSE)}})

\* ParserBase.grammar; the lines are split at delimiter, the names at SEP
grammar(self, text, sep, delimiter, main) ==
    GrammarLoop(self, Split(Strip(text), delimiter), 1, main)

\* ParserBase.set_ws_handler
set_ws_handler(self, handler) == [self EXCEPT !.ws_handler = handler]

\* ParseOutcome, were allow_partial not looked at
ParseOutcome_NoPartial(base, given, allow_partial, m) ==
    LET exc == IF m.err # "ok" THEN m.err
               ELSE IF Truthy(m.tok) /\ m.str # <<>>
               THEN "IncompleteParseError"
               ELSE IF m.tok = NoneTok THEN "NotFoundError"
               ELSE "ok"
    IN  base @@ [exc |-> exc,
                 token |-> IF exc = "ok" THEN m.tok ELSE NoneTok,
                 invoked |-> TRUE, given |-> given, merr |-> m.err,
                 mtok |-> m.tok, mstr |-> m.str, log |-> m.log]

\* ParserBase.parse from the call of the main function on; m is what it gave
ParseOutcome(base, given, allow_partial, m) ==
    LET exc == IF m.err # "ok" THEN m.err
               ELSE IF Truthy(m.tok) /\ m.str # <<>> /\ ~allow_partial
               THEN "IncompleteParseError"
               ELSE IF m.tok = NoneTok THEN "NotFoundError"
               ELSE "ok"
    IN  base @@ [exc |-> exc,
                 token |-> IF exc = "ok" THEN m.tok ELSE NoneTok,
                 invoked |-> TRUE, given |-> given, merr |-> m.err,
                 mtok |-> m.tok, mstr |-> m.str, log |-> m.log]

\* ResolveEntry, were self.main looked up before the main argument
ResolveEntry_DefaultFirst(self, main) ==
    IF NameSet(self.main) /\ self.main \in DOMAIN self.rules THEN self.main
    ELSE IF NameSet(main) /\ main \in DOMAIN self.rules THEN main
    ELSE NoneName

\* ParserBase.parse, the search for the function to start with: the name
\* whose function is called, NoneName where parse raises BadEntryError
ResolveEntry(self, main) ==
    IF NameSet(main) /\ main \in DOMAIN self.rules THEN main
    ELSE IF NameSet(self.main) /\ self.main \in DOMAIN self.rules THEN self.main
    ELSE NoneName

\* ParserBase.parse: what the call raises or returns, and what it did
parse(self, string, main, allow_partial) ==
    LET entry == ResolveEntry(self, main)
        given == IF HandlerSet(self.ws_handler) THEN <<NULL>> \o string ELSE string
        ctx == [rules |-> self.rules, no_handling |-> self.no_handling,
                ws_handler |-> self.ws_handler]
        base == [op |-> "parse", string |-> string, main |-> main,
                 allow_partial |-> allow_partial, entry |-> entry]
    IN  IF entry = NoneName
        THEN base @@ [exc |-> "BadEntryError", token |-> NoneTok, invoked |-> FALSE,
                      given |-> given, merr |-> "ok", mtok |-> NoneTok,
                      mstr |-> <<>>, log |-> <<>>]
        ELSE Only({ParseOutcome(base, given, allow_partial, m) :
                   m \in {RunFunction(ctx, self.rules[entry], given, 1)}})

(***************************************************************************)
(* The calls a program makes on one parser                                 *)
(***************************************************************************)
VARIABLES
    rules,        \* self.rules: rule name -> registered function
    no_handling,  \* the keys of self.no_handling
    ws_handler,   \* self.ws_handler
    main,         \* self.main
    res           \* the last call: its arguments and what it raised or returned

vars == <<rules, no_handling, ws_handler, main, res>>

Self ==
    [rules |-> rules, no_handling |-> no_handling, ws_handler |-> ws_handler,
     main |-> main]

Becomes(self) ==
    /\ rules' = self.rules
    /\ no_handling' = self.no_handling
    /\ ws_handler' = self.ws_handler
    /\ main' = self.main

R == <<"r">>
S == <<"s">>

\* rule bodies handed to new_rule
LitA == <<QUOTE, "a", QUOTE>>
LitAB == <<QUOTE, "a", "b", QUOTE>>
\* "a" r | "a"
BodyRep == LitA \o <<" ", "r", " ", "|", " ">> \o LitA
\* "a" "b" | "a" | "a" "a"
BodyChoice ==
    LitA \o <<" ">> \o <<QUOTE, "b", QUOTE>> \o <<" ", "|", " ">> \o LitA
         \o <<" ", "|", " ">> \o LitA \o <<" ">> \o LitA
\* s
BodyRef == <<"s">>
\* s "b"
BodyRefSeq == <<"s", " ", QUOTE, "b", QUOTE>>

Bodies == {LitA, LitAB, BodyRep, BodyChoice, BodyRef, BodyRefSeq}

RuleNames == {R, S}

\* names given to from_function; NoneName: the function's own name
FunctionNames == {NoneName, S}

\* grammar texts: two lines, with blanks around names and bodies
GrammarRS == <<"\n", "r", " ", ":", "=", " ">> \o BodyRefSeq \o <<"\n", "s", ":", "=">>
                 \o BodyChoice \o <<"\n">>
GrammarSR == <<"s", ":", "=">> \o LitA \o <<"\n", "r", ":", "=">> \o BodyRep

Grammars == {GrammarRS, GrammarSR}

Handlers == {NoHandler, IgnoreHandler}

InputChars == {"a", "b"}

Inputs == UNION {[1..n -> InputChars] : n \in 0..MaxLen}

\* main arguments of parse: none, or a name
MainArgs == {NoneName, S}

\* no call is under way and the last result has been taken
Idle == [op |-> "idle", exc |-> "ok"]

Init ==
    /\ \E h \in Handlers :
          LET self == NewParser(h)
          IN  /\ rules = self.rules
              /\ no_handling = self.no_handling
              /\ ws_handler = self.ws_handler
              /\ main = self.main
    /\ res = Idle

\* p.new_rule(name, rule, main=m, force=force)
NewRule ==
    /\ res = Idle
    /\ \E name \in RuleNames, rule \in Bodies, m \in BOOLEAN, force \in BOOLEAN :
        LET r == new_rule(Self, name, rule, m, force)
        IN  /\ Becomes(r.self)
            /\ res' = [op |-> "new_rule", exc |-> r.err, name |-> name, rule |-> rule,
                       main |-> m, force |-> force, before |-> Self]

\* p.from_function(fn, name=name, ws_handling=ws, main=m, force=force)
FromFunction ==
    /\ res = Idle
    /\ \E fn \in {AlphaName}, name \in FunctionNames, ws \in BOOLEAN,
          m \in BOOLEAN, force \in BOOLEAN :
        LET r == from_function(Self, fn, name, ws, m, force)
        IN  /\ Becomes(r.self)
            /\ res' = [op |-> "from_function", exc |-> r.err, name |-> name, fn |-> fn,
                       ws_handling |-> ws, main |-> m, force |-> force,
                       before |-> Self]

\* p.grammar(text, main=m)
Grammar ==
    /\ res = Idle
    /\ \E text \in Grammars, m \in {NoneName} \cup RuleNames :
        LET r == grammar(Self, text, SEP, DELIMITER, m)
        IN  /\ Becomes(r.self)
            /\ res' = [op |-> "grammar", exc |-> r.err, text |-> text, main |-> m,
                       before |-> Self]

\* p.set_ws_handler(h)
SetWsHandler ==
    /\ res = Idle
    /\ \E h \in Handlers :
        /\ h # ws_handler
        /\ Becomes(set_ws_handler(Self, h))
        /\ res' = [op |-> "set_ws_handler", exc |-> "ok", before |-> Self]

\* p.parse(string, main=m, allow_partial=allow_partial)
Parse ==
    /\ res = Idle
    /\ \E string \in Inputs, m \in MainArgs, allow_partial \in BOOLEAN :
        /\ res' = parse(Self, string, m, allow_partial)
        /\ UNCHANGED <<rules, no_handling, ws_handler, main>>

\* the caller takes the result of the call and goes on
Continue ==
    /\ res # Idle
    /\ res' = Idle
    /\ UNCHANGED <<rules, no_handling, ws_handler, main>>

Next ==
    \/ NewRule
    \/ FromFunction
    \/ Grammar
    \/ SetWsHandler
    \/ Parse
    \/ Continue

Spec == Init /\ [][Next]_vars

(***************************************************************************)
(* Properties                                                              *)
(***************************************************************************)
Ctx == [rules |-> rules, no_handling |-> no_handling, ws_handler |-> ws_handler]

IsParse == res.op = "parse"

\* the events of the last parse
Events == {res.log[i] : i \in 1..Len(res.log)}

\* the last matcher call that returned, when the main function returned
LastEvent == res.log[Len(res.log)]

\* f is the function of a rule whose body is one literal
IsLiteralRule(f) ==
    f.kind = "group" /\ Len(f.group) = 1 /\ is_literal(f.group[1])

\* C1: parse calls the main function on the input and then raises
\* IncompleteParseError if it gave a token and a non-empty rest and
\* allow_partial is false, raises NotFoundError if it gave None, and otherwise
\* returns the very token the main function gave
C1_ParseOutcome ==
    (IsParse /\ res.invoked /\ res.merr = "ok") =>
        /\ res.given = IF HandlerSet(ws_handler) THEN <<NULL>> \o res.string
                       ELSE res.string
        /\ LastEvent.in = res.given
        /\ LastEvent.tok = res.mtok
        /\ LastEvent.out = res.mstr
        /\ IF res.mtok # NoneTok /\ res.mstr # <<>> /\ ~res.allow_partial
           THEN res.exc = "IncompleteParseError" /\ res.token = NoneTok
           ELSE IF res.mtok = NoneTok
           THEN res.exc = "NotFoundError" /\ res.token = NoneTok
           ELSE res.exc = "ok" /\ res.token = res.mtok

\* a parse with allow_partial=True returns the token although input is left
C1_Witness ==
    /\ IsParse /\ res.invoked /\ res.merr = "ok"
    /\ res.allow_partial /\ res.mstr # <<>> /\ res.exc = "ok"
    /\ res.token = res.mtok /\ res.token # NoneTok

\* C2: with no whitespace handler and a main rule that is the one literal L,
\* parse(L) returns a token of value L, parse(L + x) with x non-empty raises
\* IncompleteParseError, and parse of a strict prefix of L raises NotFoundError
C2_LiteralRoundTrip ==
    (/\ IsParse /\ res.invoked /\ ~HandlerSet(ws_handler)
     /\ IsLiteralRule(rules[res.entry])
     /\ Unquote(rules[res.entry].group[1]) # <<>>) =>
        LET L == Unquote(rules[res.entry].group[1])
        IN  /\ res.string = L => res.exc = "ok" /\ value(res.token) = L
            /\ (StartsWith(res.string, L) /\ Len(res.string) > Len(L)
                    /\ ~res.allow_partial)
                 => res.exc = "IncompleteParseError"
            /\ (StartsWith(L, res.string) /\ res.string # L)
                 => res.exc = "NotFoundError"

\* the literal "ab" is the main rule and the non-empty strict prefix "a" is
\* not found
C2_Witness ==
    /\ IsParse /\ res.invoked /\ ~HandlerSet(ws_handler)
    /\ IsLiteralRule(rules[res.entry])
    /\ Unquote(rules[res.entry].group[1]) = <<"a", "b">>
    /\ res.string = <<"a">>
    /\ res.exc = "NotFoundError"

\* alternative i of the choice rule name is a sequence of several atoms
IsSequenceAlt(name, i) ==
    /\ name \in DOMAIN rules
    /\ rules[name].kind = "choice"
    /\ i <= Len(rules[name].choices)
    /\ Len(rules[name].choices[i].group) > 1

\* the tokens of the tree under tok, tok included
RECURSIVE Nodes(_)
Nodes(tok) == {tok} \cup UNION {Nodes(tok.children[i]) : i \in 1..Len(tok.children)}

\* C3: a sequence that fails hands back exactly the string it was given and no
\* token, the next alternative of the enclosing choice is given the string the
\* failed sequence was given, and the tree parse returns holds the consumed
\* input only and no token with children but those of sequences that matched
C3_SequenceAllOrNothing ==
    IsParse =>
        /\ \A e \in Events :
              (e.kind = "sequence" /\ ~Truthy(e.tok)) =>
                  e.tok = NoneTok /\ e.out = e.in
        /\ \A e \in Events :
              e.kind = "choice" =>
                  \A i \in 1..(Len(e.ins) - 1) :
                      IsSequenceAlt(e.name, i) => e.ins[i + 1] = e.ins[i]
        /\ (res.exc = "ok" /\ ~HandlerSet(ws_handler)) =>
              value(res.token) \o res.mstr = res.string
        /\ res.exc = "ok" =>
              \A n \in Nodes(res.token) :
                  n.children # <<>> =>
                      \E e \in Events :
                          /\ e.kind = "sequence" /\ Truthy(e.tok)
                          /\ e.tok.children = n.children

\* a sequence failed after its first atom, a literal, had matched, and the
\* choice around it went on to its next alternative
C3_Witness ==
    /\ IsParse
    /\ \E i \in 1..Len(res.log), j \in 1..Len(res.log), k \in 1..Len(res.log) :
          /\ i < j /\ j < k
          /\ res.log[j].kind = "sequence" /\ res.log[j].tok = NoneTok
          /\ res.log[i].kind = "literal" /\ res.log[i].tok # NoneTok
          /\ res.log[i].in = res.log[j].in /\ res.log[i].out # res.log[i].in
          /\ res.log[k].kind = "choice" /\ res.log[k].in = res.log[j].in
          /\ Len(res.log[k].ins) >= 2 /\ IsSequenceAlt(res.log[k].name, 1)
          /\ res.log[k].tok # NoneTok

\* the alternatives of choice rule name that match string, each run alone
Matching(name, string) ==
    {i \in 1..Len(rules[name].choices) :
        \E r \in {group_func(Ctx, rules[name].choices[i], string, 1)} :
            r.err = "ok" /\ Truthy(r.tok)}

Min(xs) == CHOOSE x \in xs : \A y \in xs : x <= y

\* C4: a choice returns what its first-listed matching alternative gives, and
\* tries no alternative after it
C4_FirstMatchWins ==
    IsParse =>
        \A e \in Events :
            e.kind = "choice" =>
                \E ok \in {Matching(e.name, e.in)} :
                    IF ok = {}
                    THEN e.tok = NoneTok /\ Len(e.ins) = Len(rules[e.name].choices)
                    ELSE \E r \in {group_func(Ctx, rules[e.name].choices[Min(ok)],
                                              e.in, 1)} :
                            /\ Len(e.ins) = Min(ok)
                            /\ e.tok = TokenTag(r.tok, e.name)
                            /\ e.out = r.str

\* two alternatives match the input, the later one would consume more, and
\* the choice stopped at the earlier one
C4_Witness ==
    /\ IsParse
    /\ \E e \in Events :
          /\ e.kind = "choice"
          /\ \E i \in Matching(e.name, e.in), j \in Matching(e.name, e.in) :
                /\ i < j
                /\ Len(e.ins) = i
                /\ Len(group_func(Ctx, rules[e.name].choices[j], e.in, 1).str)
                       < Len(e.out)

\* C5: parse starts with the rule named by its main argument if that name is
\* registered, otherwise with the parser's main rule if that is registered,
\* and otherwise raises BadEntryError without calling any rule
C5_EntryResolution ==
    IsParse =>
        LET expected == IF NameSet(res.main) /\ res.main \in DOMAIN rules
                        THEN res.main
                        ELSE IF NameSet(main) /\ main \in DOMAIN rules THEN main
                        ELSE NoneName
        IN  /\ res.entry = expected
            /\ expected = NoneName =>
                  res.exc = "BadEntryError" /\ ~res.invoked /\ res.log = <<>>
            /\ expected # NoneName =>
                  /\ res.invoked /\ res.exc # "BadEntryError"
                  /\ res.merr = "ok" =>
                        \/ LastEvent.name = expected
                        \/ /\ rules[expected].kind = "function"
                           /\ LastEvent.name = rules[expected].fn

\* the main argument names a registered rule other than the parser's main
\* rule, which is registered too, and the parse starts with the argument's
C5_Witness ==
    /\ IsParse /\ res.invoked
    /\ NameSet(res.main) /\ res.main \in DOMAIN rules
    /\ NameSet(main) /\ main \in DOMAIN rules /\ main # res.main
    /\ res.entry = res.main
    /\ res.merr = "ok" /\ LastEvent.name = res.main

\* the name a registration call registers under
EffectiveName == IF res.op = "from_function" /\ ~NameSet(res.name) THEN res.fn
                 ELSE res.name

IsRegistration == res.op \in {"new_rule", "from_function"}

\* C6: new_rule and from_function, called without force for a name that is
\* already registered (for from_function with the name left out, the name of
\* the function), raise ValueError and leave the parser as it was
C6_DuplicateRejected ==
    (IsRegistration /\ ~res.force /\ EffectiveName \in DOMAIN res.before.rules) =>
        res.exc = "ValueError" /\ Self = res.before

\* C7: new_rule accepts a rule that names rules not registered yet, itself
\* included, and every rule a parse runs is the function registered under the
\* rule's name when the parse reaches it
C7_LateBinding ==
    /\ (res.op = "new_rule"
            /\ (res.force \/ res.name \notin DOMAIN res.before.rules)) =>
          /\ res.exc = "ok"
          /\ res.name \in DOMAIN rules
          /\ rules[res.name] = CompileRule(res.name, res.rule).func
    /\ IsParse =>
          \A e \in Events :
              e.kind \in {"sequence", "single", "choice"} =>
                  /\ e.name \in DOMAIN rules
                  /\ \E f \in {rules[e.name]} :
                        \E r \in IF f.kind = "choice" /\ e.kind # "choice"
                                 THEN {group_func(Ctx, f.choices[i], e.in, 1) :
                                           i \in 1..Len(f.choices)}
                                 ELSE {RunFunction(Ctx, f, e.in, 1)} :
                            r.err = "ok" /\ r.tok = e.tok /\ r.str = e.out

\* a rule is registered after a rule that names it, and after a rule that
\* names itself, were compiled
C7_Witness ==
    /\ res.op = "new_rule" /\ res.exc = "ok"
    /\ res.name \notin DOMAIN res.before.rules
    /\ \E n \in DOMAIN res.before.rules :
          /\ res.before.rules[n].kind # "function"
          /\ res.name \in Refs(res.before.rules[n])
    /\ res.name \in Refs(rules[res.name])

\* C8: a parse that reaches a name with no registered rule raises KeyError
\* there: nothing is tried after it and no token is returned
C8_MissingRuleKeyError ==
    IsParse =>
        /\ (\E i \in 1..Len(res.log) : res.log[i].kind = "lookup") =>
              /\ res.exc = "KeyError"
              /\ res.token = NoneTok
              /\ LastEvent.kind = "lookup"
              /\ \A i \in 1..(Len(res.log) - 1) : res.log[i].kind # "lookup"
        /\ res.exc = "KeyError" => LastEvent.kind = "lookup"

\* the first alternative of a choice reaches a missing rule on input the
\* second alternative matches
C8_Witness ==
    /\ IsParse /\ res.exc = "KeyError"
    /\ rules[res.entry].kind = "choice"
    /\ \E r \in {group_func(Ctx, rules[res.entry].choices[2], res.given, 1)} :
          r.err = "ok" /\ Truthy(r.tok)

\* the number of tokens on the longest path from tok down to a leaf
RECURSIVE Height(_)
RECURSIVE MaxHeight(_, _)
Height(tok) == 1 + MaxHeight(tok.children, 1)

MaxHeight(children, i) ==
    IF i > Len(children) THEN 0
    ELSE Only({IF h >= t THEN h ELSE t :
               h \in {Height(children[i])}, t \in {MaxHeight(children, i + 1)}})

\* the rule registered under name is  name := "a" name | "a"
IsRepetition(name) ==
    /\ name \in DOMAIN rules
    /\ rules[name] = CompileRule(name, BodyRep).func
    /\ Refs(rules[name]) = {name}

LineNames(text) ==
    LET lines == Split(Strip(text), DELIMITER)
    IN  {Strip(Split(lines[i], SEP)[1]) : i \in 1..Len(lines)}

\* a parser as every successful call leaves it: it has a main rule exactly
\* when it has a rule
HasMainIffRule(self) == NameSet(self.main) <=> DOMAIN self.rules # {}

\* C10: a successful new_rule or from_function makes its rule the main rule
\* if it is called with main=True or is the first registration, and leaves the
\* main rule alone otherwise; a successful grammar(text, main=m) with m the
\* name of one of its lines makes m the main rule
C10_DefaultEntry ==
    /\ (IsRegistration /\ res.exc = "ok" /\ HasMainIffRule(res.before)) =>
          /\ main = IF res.main \/ DOMAIN res.before.rules = {}
                    THEN EffectiveName ELSE res.before.main
          /\ HasMainIffRule(Self)
    /\ (res.op = "grammar" /\ res.exc = "ok" /\ NameSet(res.main)
            /\ res.main \in LineNames(res.text)) =>
          main = res.main
    /\ (res.op = "grammar" /\ res.exc = "ok" /\ HasMainIffRule(res.before)) =>
          HasMainIffRule(Self)

\* a rule registered without main=True on a parser that has rules and a
\* main rule leaves the main rule what it was
C10_Witness ==
    /\ IsRegistration /\ res.exc = "ok" /\ ~res.main
    /\ DOMAIN res.before.rules # {} /\ NameSet(res.before.main)
    /\ EffectiveName \notin DOMAIN res.before.rules
    /\ main = res.before.main /\ main # EffectiveName

(***************************************************************************)
(* grammar called with a separator and a delimiter of the caller's         *)
(***************************************************************************)
\* the sep arguments: the default and "->"
Seps == {SEP, <<"-", ">">>}

\* the delimiter arguments: the default and ";"
Delims == {DELIMITER, <<";">>}

\* one line of a grammar, blanks around the separator
GrammarLine(name, sep, body) == name \o <<" ">> \o sep \o <<" ">> \o body

\* grammars of two lines written with separator sep and delimiter delimiter
GrammarTexts(sep, delimiter) ==
    {GrammarLine(S, sep, LitA) \o delimiter \o GrammarLine(R, sep, BodyRep),
     GrammarLine(R, sep, BodyRefSeq) \o delimiter \o GrammarLine(S, sep, BodyChoice)}

\* p.grammar(text, sep=sep, delimiter=delimiter)
GrammarWith ==
    /\ res = Idle
    /\ \E sep \in Seps, delimiter \in Delims, wsep \in Seps, wdelimiter \in Delims :
        \E text \in GrammarTexts(wsep, wdelimiter) :
            LET r == grammar(Self, text, sep, delimiter, NoneName)
            IN  /\ Becomes(r.self)
                /\ res' = [op |-> "grammar", exc |-> r.err, text |-> text,
                           sep |-> sep, delimiter |-> delimiter, main |-> NoneName,
                           before |-> Self]

NextGrammar ==
    \/ GrammarWith
    \/ Parse
    \/ Continue

SpecGrammar == Init /\ [][NextGrammar]_vars

\* new_rule(name, body) for each line from line i on, name and body being the
\* trimmed pieces of the line around sep
RECURSIVE NewRuleEachLine(_, _, _, _)
NewRuleEachLine(self, lines, i, sep) ==
    IF i > Len(lines) THEN [err |-> "ok", self |-> self]
    ELSE IF Len(Split(lines[i], sep)) # 2 THEN [err |-> "ValueError", self |-> self]
    ELSE Only({IF r.err # "ok" THEN r
               ELSE NewRuleEachLine(r.self, lines, i + 1, sep) :
               r \in {new_rule(self, Strip(Split(lines[i], sep)[1]),
                               Strip(Split(lines[i], sep)[2]), FALSE, FALSE)}})

\* C11: grammar(text, sep=S, delimiter=D) registers what new_rule(name, body)
\* registers when called for each piece of text between D, name and body being
\* the trimmed pieces of it around S, whatever S and D the caller chose
C11_GrammarSplitsAtSep ==
    res.op = "grammar" =>
        \E ref \in {NewRuleEachLine(res.before,
                                    Split(Strip(res.text), res.delimiter), 1,
                                    res.sep)} :
            ref.err = "ok" =>
                /\ res.exc = "ok"
                /\ rules = ref.self.rules
                /\ main = ref.self.main

(***************************************************************************)
(* Whitespace handling: parsers built with any of the handlers of          *)
(* whitespace.py, and subclasses whose methods are marked as rules         *)
(***************************************************************************)
\* longest input string handed to parse where whitespace is handled
MaxWsLen == 4

\* parser.RULE_ATTR
RULE_ATTR == "is_rule"
\* parser.WS_ATTR
WS_ATTR == "ws_handling"

\* the attributes of a function no decorator has touched
NoAttrs == [a \in {} |-> TRUE]

\* setattr(function, attr, v): the attributes of the function afterwards
SetAttr(attrs, attr, v) ==
    [a \in DOMAIN attrs \cup {attr} |-> IF a = attr THEN v ELSE attrs[a]]

\* parser.rule: the attributes of the function it returns
rule(attrs) == SetAttr(attrs, RULE_ATTR, TRUE)

\* parser.rule_with_option(ws_handling).decorator: the attributes of the
\* function it returns
rule_with_option(ws_handling, attrs) == SetAttr(rule(attrs), RULE_ATTR, ws_handling)

\* a method of a subclass, decorated with rule_with_option(ws_handling=option),
\* that returns common.alpha(string); option is kept with the method for the
\* properties to read
AlphaMethod(option) ==
    [item |-> AlphaName, fn |-> AlphaName, option |-> option,
     attrs |-> rule_with_option(option, NoAttrs)]

\* ParserBase.__init__ for a subclass with these methods: the loop over
\* dir(self) registers the marked ones
NewSubclassParser(handler, methods) ==
    LET marked == {m \in methods : RULE_ATTR \in DOMAIN m.attrs}
        handled == {m \in marked : WS_ATTR \in DOMAIN m.attrs /\ m.attrs[WS_ATTR]}
    IN  [rules |-> [n \in {m.item : m \in marked} |->
                        Only({[kind |-> "function", fn |-> m.fn, option |-> m.option] :
                              m \in {x \in marked : x.item = n}})],
         no_handling |-> {m.item : m \in handled},
         ws_handler |-> handler,
         main |-> NoneName]

\* the handlers a parser is constructed with
WsHandlers ==
    {IgnoreHandler, IgnoreSpecificHandler({SPACE}),
     RequireHandler(<<SPACE>>, FALSE), RequireHandler(<<SPACE>>, TRUE)}

\* the methods of the classes constructed: ParserBase itself, and a subclass
\* with one marked method for each value of ws_handling
MethodSets == {{}, {AlphaMethod(TRUE)}, {AlphaMethod(FALSE)}}

\* "a" "b"
BodySeqAB == LitA \o <<" ", QUOTE, "b", QUOTE>>
\* "a" alpha
BodySeqAAlpha == LitA \o <<" ">> \o AlphaName

WsBodies == {BodySeqAB, BodySeqAAlpha}

WsInputChars == {"a", "b", " ", "\t"}

WsInputs == UNION {[1..n -> WsInputChars] : n \in 0..MaxWsLen}

InitWs ==
    /\ \E h \in WsHandlers, methods \in MethodSets :
          LET self == NewSubclassParser(h, methods)
          IN  /\ rules = self.rules
              /\ no_handling = self.no_handling
              /\ ws_handler = self.ws_handler
              /\ main = self.main
    /\ res = Idle

\* p.new_rule('r', rule, force=True)
NewRuleWs ==
    /\ res = Idle
    /\ \E body \in WsBodies :
        LET r == new_rule(Self, R, body, FALSE, TRUE)
        IN  /\ Becomes(r.self)
            /\ res' = [op |-> "new_rule", exc |-> r.err, name |-> R, rule |-> body,
                       main |-> FALSE, force |-> TRUE, before |-> Self]

\* p.from_function(alpha, ws_handling=ws)
FromFunctionWs ==
    /\ res = Idle
    /\ \E ws \in BOOLEAN :
        LET r == from_function(Self, AlphaName, NoneName, ws, FALSE, FALSE)
        IN  /\ AlphaName \notin DOMAIN rules
            /\ Becomes(r.self)
            /\ res' = [op |-> "from_function", exc |-> r.err, name |-> NoneName,
                       fn |-> AlphaName, ws_handling |-> ws, main |-> FALSE,
                       force |-> FALSE, before |-> Self]

\* p.parse(string)
ParseWs ==
    /\ res = Idle
    /\ \E string \in WsInputs :
        /\ res' = parse(Self, string, NoneName, FALSE)
        /\ UNCHANGED <<rules, no_handling, ws_handler, main>>

NextWs ==
    \/ NewRuleWs
    \/ FromFunctionWs
    \/ ParseWs
    \/ Continue

SpecWs == InitWs /\ [][NextWs]_vars

\* the characters the handler of the parser strips before a token
Skipped ==
    IF ws_handler.kind = "ignore" THEN WhitespaceChars
    ELSE IF ws_handler.kind = "ignore_specific" THEN ws_handler.chars
    ELSE {}

\* string with c put in after its first pos characters
Insert(string, pos, c) == Take(string, pos) \o <<c>> \o Drop(string, pos)

\* string without its character number pos
Remove(string, pos) == Take(string, pos - 1) \o Drop(string, pos)

\* event e is a token matched behind the whitespace handler: a literal, or a
\* registered function in no_handling
IsHandledToken(e) ==
    /\ e.kind = "literal" \/ (e.kind = "function" /\ e.name \in no_handling)
    /\ Truthy(e.tok)

\* how many characters of the parsed string lie before the matcher call e
TokenPos(e) ==
    IF Len(e.in) > Len(res.string) THEN 0 ELSE Len(res.string) - Len(e.in)

\* C12: under ignore or ignore_specific, putting a character the handler
\* strips before any token of an accepted input, or taking one away there,
\* gives an input that is accepted with the same tokens, and putting a
\* whitespace character there that the handler does not strip gives an input
\* that raises NotFoundError
C12_WhitespaceSkipped ==
    (IsParse /\ ws_handler.kind \in {"ignore", "ignore_specific"}
         /\ res.exc = "ok") =>
        \A i \in 1..Len(res.log) :
            IsHandledToken(res.log[i]) =>
                \E pos \in {TokenPos(res.log[i])} :
                    /\ \A c \in WhitespaceChars :
                          \E r \in {parse(Self, Insert(res.string, pos, c),
                                          res.main, res.allow_partial)} :
                              IF c \in Skipped
                              THEN r.exc = "ok" /\ r.token = res.token
                              ELSE r.exc = "NotFoundError"
                    /\ (pos < Len(res.string) /\ res.string[pos + 1] \in Skipped) =>
                          \E r \in {parse(Self, Remove(res.string, pos + 1),
                                          res.main, res.allow_partial)} :
                              r.exc = "ok" /\ r.token = res.token

\* under ignore_specific(' ') an input with a blank before its second token,
\* a registered function, is accepted
C12_Witness ==
    /\ IsParse /\ ws_handler.kind = "ignore_specific" /\ res.exc = "ok"
    /\ res.string = <<"a", " ", "b">>
    /\ \E i \in 1..Len(res.log) :
          /\ res.log[i].kind = "function"
          /\ IsHandledToken(res.log[i])
          /\ TokenPos(res.log[i]) = 2

\* the exception require's handler raises; whitespace.py imports the name
\* from exceptions.py, which defines DelimiterException only
DelimiterError == "DelimiterError"

\* the main rule is one of the two-token sequences "a" "b" and "a" alpha, each
\* token matched behind the whitespace handler
IsTwoTokenEntry ==
    /\ res.entry = R
    /\ \/ rules[R] = CompileRule(R, BodySeqAB).func
       \/ /\ rules[R] = CompileRule(R, BodySeqAAlpha).func
          /\ AlphaName \in DOMAIN rules
          /\ AlphaName \in no_handling

\* C13: under require(w) with a sequence of two tokens as main rule, the
\* tokens separated by exactly w are accepted, the second token right after
\* the first raises DelimiterError, and more whitespace after w raises
\* NotFoundError under require(w) and is accepted under require(w, ignore=True)
C13_RequireDelimiter ==
    (IsParse /\ ws_handler.kind = "require" /\ res.invoked /\ IsTwoTokenEntry) =>
        LET w == ws_handler.whitespace
            n == Len(res.string)
            extra == SubSeq(res.string, 2 + Len(w), n - 1)
        IN  /\ res.string = <<"a">> \o w \o <<"b">> =>
                  res.exc = "ok" /\ value(res.token) = <<"a", "b">>
            /\ StartsWith(res.string, <<"a", "b">>) => res.exc = DelimiterError
            /\ (/\ n > 2 + Len(w)
                /\ res.string = <<"a">> \o w \o extra \o <<"b">>
                /\ \A i \in 1..Len(extra) : extra[i] \in WhitespaceChars) =>
                  IF ws_handler.ignore
                  THEN res.exc = "ok" /\ value(res.token) = <<"a", "b">>
                  ELSE res.exc = "NotFoundError"

\* under require(' ') the second token, a registered function, follows the
\* first without a blank, and the parse raises DelimiterError
C13_Witness ==
    /\ IsParse /\ ws_handler.kind = "require" /\ res.invoked /\ IsTwoTokenEntry
    /\ rules[R] = CompileRule(R, BodySeqAAlpha).func
    /\ res.string = <<"a", "b">>
    /\ res.exc = DelimiterError
    /\ res.log # <<>> /\ LastEvent.kind = "literal" /\ Truthy(LastEvent.tok)

\* the name is registered to a method marked with rule_with_option
IsMarkedMethod(name) ==
    /\ name \in DOMAIN rules
    /\ rules[name].kind = "function"
    /\ "option" \in DOMAIN rules[name]

\* C14: a method marked with rule_with_option(ws_handling=v) is a rule of the
\* constructed parser, and when a grammar rule calls it after a literal has
\* matched, it is given what the literal left, put through the whitespace
\* handler if v is true and as it is if v is false
C14_RuleOptionHandling ==
    (IsParse /\ HandlerSet(ws_handler)) =>
        \A i \in 2..Len(res.log) :
            (/\ res.log[i].kind = "function"
             /\ IsMarkedMethod(res.log[i].name)
             /\ res.log[i - 1].kind = "literal"
             /\ Truthy(res.log[i - 1].tok)) =>
                res.log[i].in =
                    IF rules[res.log[i].name].option
                    THEN ApplyHandler(ws_handler, res.log[i - 1].out).str
                    ELSE res.log[i - 1].out

(***************************************************************************)
(* Tokens a program makes and links itself: objects with an identity, the  *)
(* children of a token being the objects it was given, and parent the      *)
(* object it was last added to                                             *)
(***************************************************************************)
\* how many tokens the program constructs
MaxTokens == 3
\* how many calls of Token.add the program makes
MaxAdds == 3

\* token_type arguments of Token(), None among them
TokenTypes == {NoneName, <<"m">>}
\* text arguments of Token()
TokenTexts == {<<>>, <<"x">>}

\* parent = None
NoParent == 0

\* Token.__init__ for an object of the heap
NewObject(token_type, text) ==
    [token_type |-> token_type, text |-> text, children |-> <<>>,
     tags |-> <<>>, parent |-> NoParent]

\* heap[self].add(heap[child]): the exception and the heap afterwards
HeapAdd(heap, self, child) ==
    LET r == TokenAdd(heap[self], child)
    IN  IF r.err # "ok" THEN [err |-> r.err, heap |-> heap]
        ELSE [err |-> "ok",
              heap |-> [[heap EXCEPT ![self] = r.tok] EXCEPT ![child].parent = self]]

InitToken ==
    /\ \E h \in {NoHandler} :
          LET self == NewParser(h)
          IN  /\ rules = self.rules
              /\ no_handling = self.no_handling
              /\ ws_handler = self.ws_handler
              /\ main = self.main
    /\ res = [op |-> "token", heap |-> <<>>, adds |-> 0, call |-> "none",
              exc |-> "ok", self |-> 0, child |-> 0, before |-> <<>>]

\* t = Token(token_type, text)
TokenNew ==
    /\ res.op = "token"
    /\ Len(res.heap) < MaxTokens
    /\ \E token_type \in TokenTypes, text \in TokenTexts :
          res' = [res EXCEPT !.heap = Append(@, NewObject(token_type, text)),
                             !.call = "init", !.exc = "ok",
                             !.self = Len(res.heap) + 1, !.child = 0,
                             !.before = res.heap]
    /\ UNCHANGED <<rules, no_handling, ws_handler, main>>

\* t.add(c) for two tokens made before, which may be the same one
TokenAddCall ==
    /\ res.op = "token"
    /\ res.adds < MaxAdds
    /\ \E self \in 1..Len(res.heap), child \in 1..Len(res.heap) :
          LET r == HeapAdd(res.heap, self, child)
          IN  res' = [res EXCEPT !.heap = r.heap, !.adds = @ + 1,
                                 !.call = "add", !.exc = r.err,
                                 !.self = self, !.child = child,
                                 !.before = res.heap]
    /\ UNCHANGED <<rules, no_handling, ws_handler, main>>

NextToken ==
    \/ TokenNew
    \/ TokenAddCall

SpecToken == InitToken /\ [][NextToken]_vars

\* C15: Token.add on a token with text raises RuntimeError and leaves its
\* children and the parent of the child as they were, and no token ever has
\* both text and children
C15_NoTextWithChildren ==
    res.op = "token" =>
        /\ (res.call = "add" /\ res.before[res.self].text # <<>>) =>
              /\ res.exc = "RuntimeError"
              /\ res.heap[res.self].children = res.before[res.self].children
              /\ res.heap[res.child].parent = res.before[res.child].parent
              /\ res.heap = res.before
        /\ \A t \in 1..Len(res.heap) :
              ~(res.heap[t].text # <<>> /\ res.heap[t].children # <<>>)

\* add is called on a token with text for a child that has a parent already,
\* and raises
C15_Witness ==
    /\ res.op = "token" /\ res.call = "add"
    /\ res.before[res.self].text # <<>>
    /\ res.before[res.child].parent # NoParent
    /\ res.before[res.child].parent # res.self
    /\ res.exc = "RuntimeError"

\* C16: with no whitespace handler, the value of the token a matcher returns
\* followed by the string it returns is the string it was given; the value of
\* a literal's token is the phrase
C16_ValueThenRestIsInput ==
    (IsParse /\ ~HandlerSet(ws_handler)) =>
        \A e \in Events :
            (e.kind # "lookup" /\ Truthy(e.tok)) =>
                /\ value(e.tok) \o e.out = e.in
                /\ e.kind = "literal" => value(e.tok) = e.name

\* a sequence matched "a" and then "b": its token has two children and the
\* value ab
C16_Witness ==
    /\ IsParse /\ ~HandlerSet(ws_handler)
    /\ \E e \in Events :
          /\ e.kind = "sequence" /\ Truthy(e.tok)
          /\ Len(e.tok.children) = 2
          /\ value(e.tok) = <<"a", "b">>
          /\ e.out # <<>>

\* C17: a group of one atom returns the token its literal or rule gave with
\* token_type set to the name of the group's rule and nothing else changed,
\* and no token when that gave none
C17_SingleAtomRenames ==
    IsParse =>
        \A i \in 1..Len(res.log) :
            res.log[i].kind = "single" =>
                /\ i > 1
                /\ res.log[i - 1].kind # "lookup"
                /\ IF Truthy(res.log[i - 1].tok)
                   THEN /\ res.log[i].tok =
                               [res.log[i - 1].tok EXCEPT !.token_type = res.log[i].name]
                        /\ res.log[i].tok.text = res.log[i - 1].tok.text
                        /\ res.log[i].tok.children = res.log[i - 1].tok.children
                        /\ res.log[i].tok.token_type = res.log[i].name
                   ELSE res.log[i].tok = NoneTok

\* a rule that is one reference returns the token of the rule it names, a
\* token with children of another type, under its own name
C17_Witness ==
    /\ IsParse
    /\ \E i \in 2..Len(res.log) :
          /\ res.log[i].kind = "single"
          /\ res.log[i - 1].kind \in {"sequence", "choice"}
          /\ Truthy(res.log[i - 1].tok)
          /\ res.log[i - 1].tok.children # <<>>
          /\ res.log[i - 1].tok.token_type # res.log[i].name
          /\ res.log[i].tok.token_type = res.log[i].name

(***************************************************************************)
(* Rule bodies with escapes and with single quotes                         *)
(***************************************************************************)
APOSTROPHE == "'"

\* "\|"
BodyPipe == <<QUOTE, BACKSLASH, PIPE, QUOTE>>
\* "\""
BodyQuote == <<QUOTE, BACKSLASH, QUOTE, QUOTE>>
\* 'a'
BodySingleQuoted == <<APOSTROPHE, "a", APOSTROPHE>>

EscBodies == {BodyPipe, BodyQuote, BodySingleQuoted, LitA}

EscInputChars == {PIPE, QUOTE, APOSTROPHE, "a"}

EscInputs == UNION {[1..n -> EscInputChars] : n \in 0..MaxLen}

\* p.new_rule('r', rule, force=True)
NewRuleEsc ==
    /\ res = Idle
    /\ \E body \in EscBodies :
        LET r == new_rule(Self, R, body, FALSE, TRUE)
        IN  /\ Becomes(r.self)
            /\ res' = [op |-> "new_rule", exc |-> r.err, name |-> R, rule |-> body,
                       main |-> FALSE, force |-> TRUE, before |-> Self]

\* p.parse(string, allow_partial=allow_partial)
ParseEsc ==
    /\ res = Idle
    /\ \E string \in EscInputs, allow_partial \in BOOLEAN :
        /\ res' = parse(Self, string, NoneName, allow_partial)
        /\ UNCHANGED <<rules, no_handling, ws_handler, main>>

NextEsc ==
    \/ NewRuleEsc
    \/ ParseEsc
    \/ Continue

SpecEsc == Init /\ [][NextEsc]_vars

\* the main rule of the parse was compiled from body
EntryIs(body) ==
    /\ res.invoked
    /\ rules[res.entry] = CompileRule(res.entry, body).func

\* C18: new_rule takes the bodies "\|" and "\"" as one literal each, the pipe
\* and the double quote, and with no whitespace handler a parse under such a
\* rule accepts the one-character input | (respectively ") and no other
C18_Escapes ==
    /\ (res.op = "new_rule" /\ res.rule \in {BodyPipe, BodyQuote}) =>
          /\ res.exc = "ok"
          /\ rules[res.name].kind = "group"
          /\ rules[res.name].group =
                IF res.rule = BodyPipe THEN << <<QUOTE, PIPE, QUOTE>> >>
                ELSE << <<QUOTE, QUOTE, QUOTE>> >>
    /\ (IsParse /\ ~HandlerSet(ws_handler) /\ ~res.allow_partial) =>
          /\ EntryIs(BodyPipe) =>
                /\ res.exc = "ok" <=> res.string = <<PIPE>>
                /\ res.exc = "ok" => value(res.token) = <<PIPE>>
          /\ EntryIs(BodyQuote) =>
                /\ res.exc = "ok" <=> res.string = <<QUOTE>>
                /\ res.exc = "ok" => value(res.token) = <<QUOTE>>

\* the rule "\|" parses the input |
C18_Witness ==
    /\ IsParse /\ ~HandlerSet(ws_handler) /\ ~res.allow_partial
    /\ EntryIs(BodyPipe)
    /\ res.string = <<PIPE>>
    /\ res.exc = "ok"
    /\ value(res.token) = <<PIPE>>

\* C19: a rule whose body is the single-quoted atom 'a' refers to no rule, and
\* a parse under it raises and returns what it does under the rule "a"
C19_SingleQuotedLiteral ==
    (IsParse /\ EntryIs(BodySingleQuoted)) =>
        /\ Refs(rules[res.entry]) = {}
        /\ \E r \in {parse([Self EXCEPT
                               !.rules[res.entry] = CompileRule(res.entry, LitA).func],
                           res.string, res.main, res.allow_partial)} :
              res.exc = r.exc /\ res.token = r.token

(***************************************************************************)
(* Two parse calls under way on one parser at the same time.  A call       *)
(* advances by one matcher call at a time; each matcher call reads the     *)
(* parser as it is at that moment, and what the call has done so far is    *)
(* its own.                                                                *)
(***************************************************************************)
\* the strings the two calls parse
TwoInputs == {<<>>, <<"a">>, <<"a", "b">>, <<"a", "a", "b">>}

\* ParserAfterParse, were parse to keep the rule it started with as self.main
ParserAfterParse_RemembersEntry(self, entry) == [self EXCEPT !.main = entry]

\* the attributes of the parser once a parse call that started with the rule
\* entry has returned or raised: parse, the compiled functions and literal
\* assign to no attribute of self
ParserAfterParse(self, entry) == self

\* a call that was not made yet
NotCalled ==
    [pc |-> "idle", string |-> <<>>, main |-> NoneName, done |-> 0,
     trace |-> <<>>, exc |-> "ok", token |-> NoneTok, alone_exc |-> "ok",
     alone_token |-> NoneTok, alone_log |-> <<>>, before |-> NewParser(NoHandler)]

\* a parser with a grammar compiled into it
InitTwo ==
    /\ \E h \in Handlers, text \in Grammars :
          LET self == grammar(NewParser(h), text, SEP, DELIMITER, NoneName).self
          IN  /\ rules = self.rules
              /\ no_handling = self.no_handling
              /\ ws_handler = self.ws_handler
              /\ main = self.main
    /\ res = [op |-> "two", calls |-> <<NotCalled, NotCalled>>]

\* call c is made: p.parse(string, main=m)
TwoStart ==
    /\ res.op = "two"
    /\ \E c \in 1..2, string \in TwoInputs, m \in MainArgs :
          /\ res.calls[c].pc = "idle"
          /\ \E alone \in {parse(Self, string, m, FALSE)} :
                res' = [res EXCEPT !.calls[c] =
                           [pc |-> "running", string |-> string, main |-> m,
                            done |-> 0, trace |-> <<>>, exc |-> "ok",
                            token |-> NoneTok, alone_exc |-> alone.exc,
                            alone_token |-> alone.token, alone_log |-> alone.log,
                            before |-> Self]]
    /\ UNCHANGED <<rules, no_handling, ws_handler, main>>

\* the next matcher call of call c returns
TwoStep ==
    /\ res.op = "two"
    /\ \E c \in 1..2 :
          /\ res.calls[c].pc = "running"
          /\ \E now \in {parse(Self, res.calls[c].string, res.calls[c].main, FALSE)} :
                /\ res.calls[c].done < Len(now.log)
                /\ res' = [res EXCEPT
                              !.calls[c].done = @ + 1,
                              !.calls[c].trace =
                                  Append(@, now.log[res.calls[c].done + 1])]
    /\ UNCHANGED <<rules, no_handling, ws_handler, main>>

\* call c returns its token or raises
TwoFinish ==
    /\ res.op = "two"
    /\ \E c \in 1..2 :
          /\ res.calls[c].pc = "running"
          /\ \E now \in {parse(Self, res.calls[c].string, res.calls[c].main, FALSE)} :
                /\ res.calls[c].done >= Len(now.log)
                /\ res' = [res EXCEPT !.calls[c].pc = "done",
                                      !.calls[c].exc = now.exc,
                                      !.calls[c].token = now.token]
                /\ Becomes(ParserAfterParse(Self, now.entry))

NextTwo ==
    \/ TwoStart
    \/ TwoStep
    \/ TwoFinish

SpecTwo == InitTwo /\ [][NextTwo]_vars

AllHandlers == {NoHandler} \cup WsHandlers

\* s | "a" "b"
BodyRefOr == <<"s", " ", "|", " ">> \o BodySeqAB

NoMatchBodies == {LitA, BodyRep, BodyChoice, BodyRef, BodyRefSeq, BodyRefOr}

NoMatchInputChars == {"a", "b", " "}

NoMatchInputs == UNION {[1..n -> NoMatchInputChars] : n \in 0..MaxLen}

InitNoMatch ==
    /\ \E h \in AllHandlers :
          LET self == NewParser(h)
          IN  /\ rules = self.rules
              /\ no_handling = self.no_handling
              /\ ws_handler = self.ws_handler
              /\ main = self.main
    /\ res = Idle

\* p.new_rule(name, rule, force=True)
NewRuleNoMatch ==
    /\ res = Idle
    /\ \E name \in RuleNames, body \in NoMatchBodies :
        LET r == new_rule(Self, name, body, FALSE, TRUE)
        IN  /\ Becomes(r.self)
            /\ res' = [op |-> "new_rule", exc |-> r.err, name |-> name, rule |-> body,
                       main |-> FALSE, force |-> TRUE, before |-> Self]

\* p.from_function(alpha, name='s', ws_handling=ws, force=True)
FromFunctionNoMatch ==
    /\ res = Idle
    /\ \E ws \in BOOLEAN :
        LET r == from_function(Self, AlphaName, S, ws, FALSE, TRUE)
        IN  /\ Becomes(r.self)
            /\ res' = [op |-> "from_function", exc |-> r.err, name |-> S,
                       fn |-> AlphaName, ws_handling |-> ws, main |-> FALSE,
                       force |-> TRUE, before |-> Self]

\* p.parse(string, main=m)
ParseNoMatch ==
    /\ res = Idle
    /\ \E string \in NoMatchInputs, m \in MainArgs :
        /\ res' = parse(Self, string, m, FALSE)
        /\ UNCHANGED <<rules, no_handling, ws_handler, main>>

NextNoMatch ==
    \/ NewRuleNoMatch
    \/ FromFunctionNoMatch
    \/ ParseNoMatch
    \/ Continue

SpecNoMatch == InitNoMatch /\ [][NextNoMatch]_vars

\* no rule of the parser was installed by from_function: every registered
\* rule was compiled by new_rule and no name is in no_handling
NoFunctionRules ==
    /\ no_handling = {}
    /\ \A n \in DOMAIN rules : rules[n].kind # "function"

IsHandledFunctionAlt(name, i) ==
    /\ name \in DOMAIN rules
    /\ rules[name].kind = "choice"
    /\ i <= Len(rules[name].choices)
    /\ Len(rules[name].choices[i].group) = 1
    /\ \E item \in {rules[name].choices[i].group[1]} :
          /\ ~is_literal(item)
          /\ item \in DOMAIN rules
          /\ rules[item].kind = "function"
          /\ item \in no_handling

EntryFunctionInput ==
    IF res.entry \in no_handling
    THEN ApplyHandler(ws_handler, <<NULL>> \o res.string)
    ELSE [err |-> "ok", str |-> res.string]

\* C23: with a whitespace handler set and a rule installed by from_function as
\* the entry rule, the function is given the input without the start-of-input
\* marker, and parse(s) returns a token exactly when the function matches all
\* of s
C23_FunctionEntrySeesInput ==
    (/\ IsParse /\ HandlerSet(ws_handler) /\ res.invoked
     /\ rules[res.entry].kind = "function"
     /\ EntryFunctionInput.err = "ok") =>
        \E u \in {UserFunction(rules[res.entry].fn, EntryFunctionInput.str)} :
            /\ res.log # <<>>
            /\ LastEvent.kind = "function"
            /\ LastEvent.in = EntryFunctionInput.str
            /\ res.exc = "ok" <=> (Truthy(u.tok) /\ u.str = <<>>)

\* n items a separated by the whitespace w
RECURSIVE Items(_, _)
Items(n, w) == IF n <= 1 THEN <<"a">> ELSE <<"a">> \o w \o Items(n - 1, w)

\* C28: under require(w) with r := "a" r | "a" as the entry rule, an input of
\* N >= 1 items a separated by w is accepted: the attempt at a further
\* repetition on the empty rest is a failure to match, and the second
\* alternative takes the last item
C28_RequireRepetition ==
    (/\ IsParse /\ ws_handler.kind = "require" /\ res.invoked
     /\ IsRepetition(res.entry)
     /\ \E n \in 1..MaxLen : res.string = Items(n, ws_handler.whitespace)) =>
        /\ res.exc = "ok"
        /\ \A i \in 1..Len(value(res.token)) : value(res.token)[i] = "a"

(***************************************************************************)
(* Token.remove, and programs that add and remove tokens                   *)
(***************************************************************************)
\* how many calls of Token.add and Token.remove the program makes
MaxCalls == 3

\* the token object t of the heap with the tokens under it, held by value
RECURSIVE Tree(_, _)
Tree(heap, t) ==
    [token_type |-> heap[t].token_type, text |-> heap[t].text,
     children |-> [i \in 1..Len(heap[t].children) |-> Tree(heap, heap[t].children[i])],
     tags |-> heap[t].tags]

\* Token.__eq__ for two tokens: their values are compared
TokenEq(heap, a, b) == value(Tree(heap, a)) = value(Tree(heap, b))

\* list.remove(x), from item j on: the first item that is x or equals x is
\* taken out; an item whose value() raises is where the call raises
RECURSIVE ListRemove(_, _, _, _)
ListRemove(heap, xs, x, j) ==
    IF j > Len(xs) THEN [err |-> "ValueError", list |-> xs]
    ELSE IF xs[j] = x
    THEN [err |-> "ok", list |-> SubSeq(xs, 1, j - 1) \o SubSeq(xs, j + 1, Len(xs))]
    ELSE IF RuntimeErrorValue \in {value(Tree(heap, xs[j])), value(Tree(heap, x))}
    THEN [err |-> "RuntimeError", list |-> xs]
    ELSE IF TokenEq(heap, xs[j], x)
    THEN [err |-> "ok", list |-> SubSeq(xs, 1, j - 1) \o SubSeq(xs, j + 1, Len(xs))]
    ELSE ListRemove(heap, xs, x, j + 1)

\* Token.remove: the for loop over self.children from position i on, children
\* being the list as the loop has left it and child the loop variable (0 while
\* it is unbound); the list iterator goes on to position i + 1 after a removal
RECURSIVE RemoveLoop(_, _, _, _, _)
RemoveLoop(heap, children, i, match, child) ==
    IF i > Len(children) THEN [err |-> "ok", children |-> children, child |-> child]
    ELSE IF children[i] = match
    THEN Only({IF r.err # "ok"
               THEN [err |-> r.err, children |-> children, child |-> children[i]]
               ELSE RemoveLoop(heap, r.list, i + 1, match, children[i]) :
               r \in {ListRemove(heap, children, children[i], 1)}})
    ELSE RemoveLoop(heap, children, i + 1, match, children[i])

\* heap[self].remove(heap[token]): the exception and the heap afterwards;
\* child.parent = None is done to the token the loop looked at last
HeapRemove(heap, self, token) ==
    LET r == RemoveLoop(heap, heap[self].children, 1, token, 0)
    IN  IF r.err # "ok" THEN [err |-> r.err, heap |-> heap]
        ELSE IF r.child = 0 THEN [err |-> "UnboundLocalError", heap |-> heap]
        ELSE [err |-> "ok",
              heap |-> [[heap EXCEPT ![self].children = r.children]
                            EXCEPT ![r.child].parent = NoParent]]

\* the program has made MaxTokens tokens: the first one or two without text,
\* the others with the text x
InitLinks ==
    /\ \E h \in {NoHandler} :
          LET self == NewParser(h)
          IN  /\ rules = self.rules
              /\ no_handling = self.no_handling
              /\ ws_handler = self.ws_handler
              /\ main = self.main
    /\ \E k \in 1..2 :
          \E heap \in {[i \in 1..MaxTokens |->
                           NewObject(<<"m">>, IF i <= k THEN <<>> ELSE <<"x">>)]} :
              res = [op |-> "links", heap |-> heap, calls |-> 0, call |-> "none",
                     exc |-> "ok", self |-> 0, child |-> 0, before |-> heap]

\* t.add(c), c a token made after t
LinksAdd ==
    /\ res.op = "links"
    /\ res.calls < MaxCalls
    /\ \E self \in 1..Len(res.heap), child \in 1..Len(res.heap) :
          /\ self < child
          /\ LET r == HeapAdd(res.heap, self, child)
             IN  res' = [res EXCEPT !.heap = r.heap, !.calls = @ + 1,
                                    !.call = "add", !.exc = r.err,
                                    !.self = self, !.child = child,
                                    !.before = res.heap]
    /\ UNCHANGED <<rules, no_handling, ws_handler, main>>

\* t.remove(c)
LinksRemove ==
    /\ res.op = "links"
    /\ res.calls < MaxCalls
    /\ \E self \in 1..Len(res.heap), child \in 1..Len(res.heap) :
          LET r == HeapRemove(res.heap, self, child)
          IN  res' = [res EXCEPT !.heap = r.heap, !.calls = @ + 1,
                                 !.call = "remove", !.exc = r.err,
                                 !.self = self, !.child = child,
                                 !.before = res.heap]
    /\ UNCHANGED <<rules, no_handling, ws_handler, main>>

NextLinks ==
    \/ LinksAdd
    \/ LinksRemove

SpecLinks == InitLinks /\ [][NextLinks]_vars

\* the tokens in the children list of token p of the heap
ChildSet(heap, p) == {heap[p].children[i] : i \in 1..Len(heap[p].children)}

\* xs without the items that are x
Without(xs, x) == SelectSeq(xs, LAMBDA y : y # x)

\* xs without the first item that is x
RECURSIVE WithoutFirst(_, _)
WithoutFirst(xs, x) ==
    IF xs = <<>> THEN <<>>
    ELSE IF Head(xs) = x THEN Tail(xs)
    ELSE <<Head(xs)>> \o WithoutFirst(Tail(xs), x)

\* C24: p.remove(t) for a child t of p takes t out of p.children, and no other
\* child even if its value equals t's, sets t.parent to None, and leaves the
\* other children of p and the parent of every other token as they were
C24_RemoveByIdentity ==
    (/\ res.op = "links" /\ res.call = "remove"
     /\ res.child \in ChildSet(res.before, res.self)) =>
        /\ res.exc = "ok"
        /\ res.heap[res.self].children \in
              {Without(res.before[res.self].children, res.child),
               WithoutFirst(res.before[res.self].children, res.child)}
        /\ res.heap[res.child].parent = NoParent
        /\ \A u \in 1..Len(res.heap) :
              /\ u # res.child => res.heap[u].parent = res.before[u].parent
              /\ u # res.self => res.heap[u].children = res.before[u].children

\* C30: after any calls of add and remove, every token in p.children has p as
\* its parent, no token is in the children of two tokens, and every token
\* whose parent is p is in p.children
C30_LinksAgree ==
    res.op = "links" =>
        \A c \in 1..Len(res.heap) :
            /\ \A p \in 1..Len(res.heap) :
                  c \in ChildSet(res.heap, p) => res.heap[c].parent = p
            /\ Cardinality({p \in 1..Len(res.heap) : c \in ChildSet(res.heap, p)}) <= 1
            /\ res.heap[c].parent # NoParent =>
                  c \in ChildSet(res.heap, res.heap[c].parent)

(***************************************************************************)
(* split_tokens called on rule bodies                                      *)
(***************************************************************************)
\* longest body handed to split_tokens
MaxBodyLen == 4

SplitChars == {QUOTE, BACKSLASH, "a", " "}

SplitBodies == UNION {[1..n -> SplitChars] : n \in 0..MaxBodyLen}

\* split_tokens(string)
SplitTokensCall ==
    /\ res = Idle
    /\ \E string \in SplitBodies :
        LET r == split_tokens(string)
        IN  res' = [op |-> "split_tokens", exc |-> r.err, string |-> string,
                    tokens |-> r.tokens]
    /\ UNCHANGED <<rules, no_handling, ws_handler, main>>

NextSplit ==
    \/ SplitTokensCall
    \/ Continue

SpecSplit == Init /\ [][NextSplit]_vars

\* the character at position i of body is a double quote behind a backslash
IsEscapedQuote(body, i) ==
    /\ i > 1
    /\ body[i] = QUOTE
    /\ body[i - 1] = BACKSLASH

\* how many double quotes of body are not escaped
UnescapedQuotes(body) ==
    Cardinality({i \in 1..Len(body) : body[i] = QUOTE /\ ~IsEscapedQuote(body, i)})

\* the atoms of body read character by character from position i: cur is
\* the atom being read and quoted whether it is a literal; an escaped quote
\* is the quote character, an unescaped one opens or closes a literal, and
\* whitespace outside a literal ends a run
RECURSIVE Atoms(_, _, _, _)
Atoms(body, i, cur, quoted) ==
    LET flush == IF cur = <<>> THEN <<>> ELSE <<cur>>
    IN  IF i > Len(body) THEN flush
        ELSE IF body[i] = BACKSLASH /\ i < Len(body) /\ body[i + 1] = QUOTE
        THEN Atoms(body, i + 2, Append(cur, QUOTE), quoted)
        ELSE IF body[i] = QUOTE
        THEN IF quoted THEN <<Append(cur, QUOTE)>> \o Atoms(body, i + 1, <<>>, FALSE)
             ELSE flush \o Atoms(body, i + 1, <<QUOTE>>, TRUE)
        ELSE IF ~quoted /\ body[i] \in WhitespaceChars
        THEN flush \o Atoms(body, i + 1, <<>>, FALSE)
        ELSE Atoms(body, i + 1, Append(cur, body[i]), quoted)

\* C25: split_tokens raises exactly when the body has an odd number of
\* unescaped double quotes, and otherwise returns, from left to right, each
\* double-quoted literal with its quotes and inner whitespace and each
\* maximal whitespace-free run outside quotes, an escaped quote being the
\* quote character; whitespace outside quotes gives no atom
C25_SplitTokens ==
    res.op = "split_tokens" =>
        /\ res.exc = "ValueError" <=> UnescapedQuotes(res.string) % 2 = 1
        /\ res.exc \in {"ok", "ValueError"}
        /\ res.exc = "ok" =>
              /\ res.tokens = Atoms(res.string, 1, <<>>, FALSE)
              /\ \A k \in 1..Len(res.tokens) :
                    /\ res.tokens[k] # <<>>
                    /\ is_literal(res.tokens[k])
                       \/ \A c \in 1..Len(res.tokens[k]) :
                             res.tokens[k][c] \notin WhitespaceChars

\* a body with a run right before a literal that holds a blank gives two
\* atoms, and a literal that holds an escaped quote gives one
C25_Witness ==
    /\ res.op = "split_tokens" /\ res.exc = "ok"
    /\ \/ /\ res.string = <<"a", QUOTE, " ", QUOTE>>
          /\ res.tokens = << <<"a">>, <<QUOTE, " ", QUOTE>> >>
       \/ /\ res.string = <<QUOTE, BACKSLASH, QUOTE, QUOTE>>
          /\ res.tokens = << <<QUOTE, QUOTE, QUOTE>> >>

(***************************************************************************)
(* The matchers of common.py called on strings                             *)
(***************************************************************************)
CommonNames ==
    {LowerName, UpperName, AlphaName, DigitName, RunName(LowerName),
     RunName(UpperName), RunName(AlphaName), RunName(DigitName), WhitespaceName}

\* the function of common.py of that name, called on string
CommonFunction(fn, string) ==
    CASE fn = LowerName -> lower(string)
      [] fn = UpperName -> upper(string)
      [] fn = AlphaName -> [err |-> "ok"] @@ alpha(string)
      [] fn = DigitName -> digit(string)
      [] fn = RunName(LowerName) -> lower_run(string)
      [] fn = RunName(UpperName) -> upper_run(string)
      [] fn = RunName(AlphaName) -> alpha_run(string)
      [] fn = RunName(DigitName) -> digit_run(string)
      [] fn = WhitespaceName -> whitespace(string)

CommonInputChars == {"a", "B", "1", " "}

CommonInputs == UNION {[1..n -> CommonInputChars] : n \in 0..MaxLen}

\* fn(string), fn a function of common.py
CommonCall ==
    /\ res = Idle
    /\ \E fn \in CommonNames, string \in CommonInputs :
        LET r == CommonFunction(fn, string)
        IN  res' = [op |-> "common", exc |-> r.err, fn |-> fn, string |-> string,
                    tok |-> r.tok, str |-> r.str]
    /\ UNCHANGED <<rules, no_handling, ws_handler, main>>

NextCommon ==
    \/ CommonCall
    \/ Continue

SpecCommon == Init /\ [][NextCommon]_vars

\* the characters of the class the matcher named fn takes
ClassOf(fn) ==
    CASE fn \in {LowerName, RunName(LowerName)} -> LowerChars
      [] fn \in {UpperName, RunName(UpperName)} -> UpperChars
      [] fn \in {AlphaName, RunName(AlphaName)} -> AlphaChars
      [] fn \in {DigitName, RunName(DigitName)} -> DigitChars
      [] fn = WhitespaceName -> WhitespaceChars

\* the matcher named fn takes one character
IsSingle(fn) == fn \in {LowerName, UpperName, AlphaName, DigitName}

\* the longest prefix of string made of characters of chars
RECURSIVE LongestRun(_, _)
LongestRun(string, chars) ==
    IF string # <<>> /\ Head(string) \in chars
    THEN <<Head(string)>> \o LongestRun(Tail(string), chars)
    ELSE <<>>

\* C26: each matcher of common.py, on every string, the empty one included,
\* raises nothing; on a string that does not start with a character of its
\* class it returns None and the string; otherwise the text of its token is
\* the first character (single-character matchers) or the longest run of
\* the class (run matchers and whitespace), and text then rest is the string
C26_CommonMatcherContract ==
    res.op = "common" =>
        /\ res.exc = "ok"
        /\ IF res.string = <<>> \/ res.string[1] \notin ClassOf(res.fn)
           THEN res.tok = NoneTok /\ res.str = res.string
           ELSE /\ res.tok # NoneTok
                /\ res.tok.token_type = res.fn
                /\ res.tok.text = IF IsSingle(res.fn) THEN <<res.string[1]>>
                                  ELSE LongestRun(res.string, ClassOf(res.fn))
                /\ res.tok.text \o res.str = res.string

(***************************************************************************)
(* Recursion in the grammar                                                *)
(***************************************************************************)
\* the atoms of each alternative of the function of a compiled rule
Alternatives(f) ==
    IF f.kind = "group" THEN <<f.group>>
    ELSE IF f.kind = "choice" THEN [i \in 1..Len(f.choices) |-> f.choices[i].group]
    ELSE <<>>

\* the atom can match without consuming a character: the empty literal, or
\* a rule among nullable
NullableAtom(item, nullable) ==
    IF is_literal(item) THEN Unquote(item) = <<>> ELSE item \in nullable

\* the registered rules that can match without consuming a character: those
\* with an alternative of such atoms only
RECURSIVE NullableNames(_)
NullableNames(known) ==
    LET more == known \cup
                {n \in DOMAIN rules :
                    \E i \in 1..Len(Alternatives(rules[n])) :
                        \A a \in 1..Len(Alternatives(rules[n])[i]) :
                            NullableAtom(Alternatives(rules[n])[i][a], known)}
    IN  IF more = known THEN known ELSE NullableNames(more)

\* the rules that rule n can call before it has consumed a character
LeftRefs(n) ==
    {item \in Refs(rules[n]) :
        \E i \in 1..Len(Alternatives(rules[n])) :
            \E a \in 1..Len(Alternatives(rules[n])[i]) :
                /\ Alternatives(rules[n])[i][a] = item
                /\ \A b \in 1..(a - 1) :
                      NullableAtom(Alternatives(rules[n])[i][b], NullableNames({}))}

\* the rules reached from the rules of from by such calls, added to seen
RECURSIVE LeftReach(_, _)
LeftReach(from, seen) ==
    LET next == UNION {LeftRefs(n) : n \in from \cap DOMAIN rules} \ seen
    IN  IF next = {} THEN seen ELSE LeftReach(next, seen \cup next)

\* every path from a rule back to itself first consumes a character
NoLeftRecursion == \A n \in DOMAIN rules : n \notin LeftReach({n}, {})

\* the bound on the nesting of rule calls of the last parse: each rule is
\* under way at most once for each length of the string still to be matched
DepthBound == Cardinality(DOMAIN rules) * (Len(res.given) + 1)

\* C27: under a grammar in which every path from a rule back to itself first
\* consumes a character, parse does not run out of stack, and its rule calls
\* nest no deeper than the number of rules times the number of lengths the
\* remaining input can have
C27_BoundedRecursion ==
    (IsParse /\ res.invoked /\ NoLeftRecursion) =>
        /\ res.exc # "RecursionError"
        /\ RunFunction(Ctx, rules[res.entry], res.given,
                       RecursionLimit + 1 - DepthBound).err # "RecursionError"

\* r := "a" r | "a" is the only rule and the input is MaxLen letters a: the
\* calls nest exactly as deep as the bound, one level less does not suffice
C27_Witness ==
    /\ IsParse /\ res.invoked /\ NoLeftRecursion
    /\ DOMAIN rules = {R} /\ IsRepetition(R)
    /\ ~HandlerSet(ws_handler)
    /\ Len(res.string) = MaxLen
    /\ res.exc = "ok"
    /\ RunFunction(Ctx, rules[res.entry], res.given,
                   RecursionLimit + 2 - DepthBound).err = "RecursionError"

(***************************************************************************)
(* Registration calls that raise                                           *)
(***************************************************************************)
\* s := "a"  and then  r := "a   (a literal that is not closed)
GrammarUnclosed == <<"s", ":", "=">> \o LitA \o <<"\n", "r", ":", "=", QUOTE, "a">>

EntryGrammars == {GrammarSR, GrammarUnclosed}

\* p.grammar(text, main=m)
GrammarEntry ==
    /\ res = Idle
    /\ \E text \in EntryGrammars, m \in {NoneName} \cup RuleNames :
        LET r == grammar(Self, text, SEP, DELIMITER, m)
        IN  /\ Becomes(r.self)
            /\ res' = [op |-> "grammar", exc |-> r.err, text |-> text, main |-> m,
                       before |-> Self]

NextEntry ==
    \/ NewRule
    \/ FromFunction
    \/ GrammarEntry
    \/ Continue

SpecEntry == Init /\ [][NextEntry]_vars

\* C29: after any calls of new_rule, from_function and grammar, whether they
\* returned or raised, the main rule of the parser is unset or is a
\* registered rule
C29_EntryIsRegistered ==
    NameSet(main) => main \in DOMAIN rules

=============================================================================
